---------------------------- MODULE Spec2Model ----------------------------
(***************************************************************************)
(* CSS Spy Defender (extension/content.js, extension/popup.js): the escape *)
(* normalizer, the URL candidate extractor, the resolver and the two       *)
(* seen-sets, the fetch orchestration, the recursive import walker and the *)
(* document watcher, as a state machine.                                   *)
(*                                                                         *)
(* A text is a sequence of UTF-16 code units (naturals), as a JavaScript   *)
(* string is.  URLs are kept as strings.                                   *)
(***************************************************************************)
EXTENDS Integers, Sequences, FiniteSets, Bags, TLC

(***************************************************************************)
(* State                                                                   *)
(***************************************************************************)

VARIABLES
  page,                  \* the document loaded in the tab: [name, pieces]
  scheme,                \* the environment: prefers-color-scheme of the user
  store,                 \* chrome.storage.sync: key -> "on", "off" or "unset"
  options,               \* what init read from the store
  dom,                   \* the nodes attached to the document
  styleText,             \* textContent of every style element
  linkDisabled,          \* the link elements with disabled = true
  overrideStyle,         \* the container-blocking style element is in the document
  mathProtectedElements, \* content.js:25
  preloadedUrls,         \* content.js:23
  parsedCssUrls,         \* content.js:24
  probes,                \* bag: the img probes created, by URL
  attached,              \* the URLs whose img probe is in the document
  awaiting,              \* the events of the probes still to come: <<URL, "img" or "timeout">>
  issued,                \* bag: the text fetches issued, [url, via, by]
  pending,               \* the fetches in flight, with their continuation
  settled,               \* how the fetches that are over have settled
  port,                  \* the messages to the service worker: what was sent back, what resolved
  inserts,               \* observer deliveries of a re-inserted node so far
  reloads,               \* reloads of the tab so far
  lastRun,               \* the seen-sets and probes of the document lifetime before the reload
  checkboxes,            \* the popup: whether it is open, and what its checkboxes show
  saving,                \* the last click on Save: its settings, and how far it has come
  decText,               \* the text handed to the normalizer
  decPasses,             \* the results of the successive decoding passes
  analysed               \* Analysis(page): the scans of the texts of the document

domVars == <<dom, styleText, linkDisabled, overrideStyle, mathProtectedElements>>
engineVars ==
  <<preloadedUrls, parsedCssUrls, probes, attached, awaiting, issued, pending, settled, port>>
decVars == <<decText, decPasses>>
vars ==
  <<page, analysed, scheme, store, options, domVars, engineVars, inserts, reloads, lastRun,
    checkboxes, saving, decVars>>

(***************************************************************************)
(* Characters                                                              *)
(***************************************************************************)

\* The printable ASCII characters in code order: code 32 (space) to 95 (_),
\* and 97 (a) to 126 (~).  Code 96 (the grave accent) has no string form
\* here and occurs in no text of the model.
AsciiTo95 ==
  " !\"#$%&'()*+,-./0123456789:;<=>?@ABCDEFGHIJKLMNOPQRSTUVWXYZ[\\]^_"

AsciiFrom97 == "abcdefghijklmnopqrstuvwxyz{|}~"

\* The code unit of a one-character ASCII string.
Ord(c) ==
  IF \E i \in 1..Len(AsciiTo95) : SubSeq(AsciiTo95, i, i) = c
  THEN 31 + (CHOOSE i \in 1..Len(AsciiTo95) : SubSeq(AsciiTo95, i, i) = c)
  ELSE 96 + (CHOOSE i \in 1..Len(AsciiFrom97) : SubSeq(AsciiFrom97, i, i) = c)

\* The one-character string of an ASCII code unit.
Chr(n) ==
  IF n <= 95 THEN SubSeq(AsciiTo95, n - 31, n - 31) ELSE SubSeq(AsciiFrom97, n - 96, n - 96)

\* The code units of an ASCII string.
Codes(s) == [i \in 1..Len(s) |-> Ord(SubSeq(s, i, i))] \o <<>>

\* The least element of a non-empty set of positions.
Least(S) == CHOOSE x \in S : \A y \in S : x <= y

\* The string of a text of ASCII code units (the URLs of the model are ASCII).
RECURSIVE Str(_)
Str(t) == IF t = <<>> THEN "" ELSE Chr(t[1]) \o Str(Tail(t))

Backslash == 92

\* [0-9a-fA-F]
IsHex(c) == (c >= 48 /\ c <= 57) \/ (c >= 97 /\ c <= 102) \/ (c >= 65 /\ c <= 70)

HexVal(c) == IF c <= 57 THEN c - 48 ELSE IF c >= 97 THEN c - 87 ELSE c - 55

\* \s of a JavaScript regular expression.
IsWs(c) ==
  \/ c \in {9, 10, 11, 12, 13, 32, 160, 5760, 8232, 8233, 8239, 8287, 12288, 65279}
  \/ (c >= 8192 /\ c <= 8202)

\* The i flag: the lower-case form of an ASCII letter.
Lower(c) == IF c >= 65 /\ c <= 90 THEN c + 32 ELSE c

\* The literals of the patterns and of the prefix tests, as code units.
Lit ==
  [imageSet |-> Codes("image-set"),
   x |-> Codes("x"),
   dppx |-> Codes("dppx"),
   url |-> Codes("url"),
   import |-> Codes("@import"),
   http |-> Codes("http"),
   https |-> Codes("https"),
   blob |-> Codes("blob"),
   null |-> Codes("null"),
   aboutBlank |-> Codes("about:blank"),
   calc |-> Codes("calc"),
   env |-> Codes("env"),
   safeArea |-> Codes("safe-area-inset-"),
   viewport |-> Codes("viewport-segment-"),
   dataPrefix |-> Codes("data:"),
   hashPrefix |-> Codes("#"),
   blobPrefix |-> Codes("blob:"),
   image |-> Codes("image"),
   mediaLight |-> Codes("@media (prefers-color-scheme: light)"),
   mediaDark |-> Codes("@media (prefers-color-scheme: dark)")]

(***************************************************************************)
(* Escape Normalizer: decodeCssEscapes                                     *)
(***************************************************************************)

\* The absent value (null, undefined): a sequence no text equals.
Null == <<-1>>

\* The largest code point String.fromCodePoint accepts (0x10FFFF).
MaxCodePoint == 1114111

\* [0-9a-fA-F]{1,6}, greedy: the number of hex digits taken from position i
\* (0 when the character at i is no hex digit).
HexRunLen(text, i) ==
  LET ok(k) == \A j \in 0..(k - 1) : i + j <= Len(text) /\ IsHex(text[i + j])
  IN  CHOOSE k \in 0..6 : ok(k) /\ (k = 6 \/ ~ok(k + 1))

\* Number.parseInt(hex, 16) of the n digits from position i.
RECURSIVE ParseHex(_, _, _)
ParseHex(text, i, n) ==
  IF n = 0 THEN 0 ELSE 16 * ParseHex(text, i, n - 1) + HexVal(text[i + n - 1])

\* String.fromCodePoint(code) for a code it accepts: one code unit, or the
\* surrogate pair of a code point above 0xFFFF.
FromCodePoint(code) ==
  IF code <= 65535 THEN <<code>>
  ELSE <<55296 + ((code - 65536) \div 1024), 56320 + ((code - 65536) % 1024)>>

\* The pattern without its \s?: no white space is taken after the digits.
OptWsNone(text, i) == 0

\* \s?, greedy: 1 when the character at position i is white space.
OptWs(text, i) == IF i <= Len(text) /\ IsWs(text[i]) THEN 1 ELSE 0

\* The replacer callback: match is text[i..e], hex its n digits from i + 1.
\* fromCodePoint throws a RangeError above 0x10FFFF, and the match is kept.
EscapeReplacement(text, i, n, e) ==
  LET code == ParseHex(text, i + 1, n)
  IN  IF code > MaxCodePoint THEN SubSeq(text, i, e) ELSE FromCodePoint(code)

\* The positions from i on where /\\([0-9a-fA-F]{1,6})\s?/ matches.
EscapesFrom(text, i) ==
  {j \in i..Len(text) : text[j] = Backslash /\ HexRunLen(text, j + 1) >= 1}

\* text.replace(/\\([0-9a-fA-F]{1,6})\s?/g, ...) from position i on: the
\* text up to the next match is kept, the match is replaced, and the search
\* goes on after the match.
RECURSIVE ReplaceEscapes(_, _)
ReplaceEscapes(text, i) ==
  IF EscapesFrom(text, i) = {} THEN SubSeq(text, i, Len(text))
  ELSE LET j == Least(EscapesFrom(text, i))
           n == HexRunLen(text, j + 1)
           e == j + n + OptWs(text, j + n + 1)
       IN  SubSeq(text, i, j - 1) \o EscapeReplacement(text, j, n, e)
             \o ReplaceEscapes(text, e + 1)

\* A replace without the g flag: only the first escape is decoded.
ReplaceFirstEscape(text, i) ==
  IF EscapesFrom(text, i) = {} THEN SubSeq(text, i, Len(text))
  ELSE LET j == Least(EscapesFrom(text, i))
           n == HexRunLen(text, j + 1)
           e == j + n + OptWs(text, j + n + 1)
       IN  SubSeq(text, i, j - 1) \o EscapeReplacement(text, j, n, e)
             \o SubSeq(text, e + 1, Len(text))

decodeFirstEscapeOnly(text) ==
  IF text = Null \/ text = <<>> THEN text ELSE ReplaceFirstEscape(text, 1)

decodeCssEscapes(text) ==
  IF text = Null \/ text = <<>> THEN text ELSE ReplaceEscapes(text, 1)

(***************************************************************************)
(* URL Candidate Extractor: the regular expressions of parseAndPreload and *)
(* handleImports.  Each matcher gives [ok, url, end]: whether the pattern  *)
(* matches at the position, the captured URL text and the position of the  *)
(* last character of the match.                                            *)
(***************************************************************************)

NoMatch == [ok |-> FALSE, url |-> <<>>, end |-> 0]
Matched(u, e) == [ok |-> TRUE, url |-> u, end |-> e]

Quote == {34, 39}      \* " and '
LParen == 40
RParen == 41
Semicolon == 59
Dot == 46

\* \s*: the first position from i on that holds no white space.
RECURSIVE SkipWs(_, _)
SkipWs(t, i) == IF i <= Len(t) /\ IsWs(t[i]) THEN SkipWs(t, i + 1) ELSE i

\* [^'")\s]*: the first position from i on that holds ', ", ) or white space.
RECURSIVE SkipUrlChars(_, _)
SkipUrlChars(t, i) ==
  IF i <= Len(t) /\ t[i] \notin Quote /\ t[i] # RParen /\ ~IsWs(t[i])
  THEN SkipUrlChars(t, i + 1) ELSE i

\* [^'"]*: the first position from i on that holds a quote.
RECURSIVE SkipNonQuotes(_, _)
SkipNonQuotes(t, i) ==
  IF i <= Len(t) /\ t[i] \notin Quote THEN SkipNonQuotes(t, i + 1) ELSE i

\* \d*: the first position from i on that holds no digit.
RECURSIVE SkipDigits(_, _)
SkipDigits(t, i) ==
  IF i <= Len(t) /\ t[i] >= 48 /\ t[i] <= 57 THEN SkipDigits(t, i + 1) ELSE i

\* The first position from i on that holds character c; Len(t) + 1 if none.
Find(t, i, c) == Least({j \in i..Len(t) : t[j] = c} \cup {Len(t) + 1})

\* A literal of the pattern at position i, under the i flag (lit is lower case).
LitAt(t, i, lit) ==
  /\ i + Len(lit) - 1 <= Len(t)
  /\ \A k \in 1..Len(lit) : Lower(t[i + k - 1]) = lit[k]

\* \s*\(\s*(['"]?)([^'")\s]+)\1\s*\) at position i: the argument of url( )
\* and image( ).  With the quote taken, the URL run must be closed by the same
\* quote; with the empty alternative, the run must start at i itself.
FuncArgAt(t, i) ==
  LET a == SkipWs(t, i)
      b == SkipWs(t, a + 1)
      quoted ==
        IF b <= Len(t) /\ t[b] \in Quote
        THEN LET r == SkipUrlChars(t, b + 1)
                 c == SkipWs(t, r + 1)
             IN  IF r > b + 1 /\ r <= Len(t) /\ t[r] = t[b] /\ c <= Len(t) /\ t[c] = RParen
                 THEN Matched(SubSeq(t, b + 1, r - 1), c) ELSE NoMatch
        ELSE NoMatch
      bare ==
        LET r == SkipUrlChars(t, b)
            c == SkipWs(t, r)
        IN  IF r > b /\ c <= Len(t) /\ t[c] = RParen
            THEN Matched(SubSeq(t, b, r - 1), c) ELSE NoMatch
  IN  IF a <= Len(t) /\ t[a] = LParen
      THEN IF quoted.ok THEN quoted ELSE bare
      ELSE NoMatch

\* /name\s*\(\s*(['"]?)([^'")\s]+)\1\s*\)/gi at position i.
FuncAt(t, i, name) == IF LitAt(t, i, name) THEN FuncArgAt(t, i + Len(name)) ELSE NoMatch

\* The exec loop of a function pattern from position i: match[2] of every
\* match, leftmost first, the next search starting after the match.
RECURSIVE FuncMatches(_, _, _)
FuncMatches(t, i, name) ==
  LET at == {j \in i..Len(t) : FuncAt(t, j, name).ok}
  IN  IF at = {} THEN <<>>
      ELSE LET m == FuncAt(t, Least(at), name)
           IN  <<m.url>> \o FuncMatches(t, m.end + 1, name)

\* /image-set\s*\(\s*([^)]+)\)/gi at position i: the capture runs to the
\* first ")" and holds at least one character (the last white space, if
\* nothing else precedes the parenthesis).
ImageSetAt(t, i) ==
  LET a == SkipWs(t, i + 9)
      b == SkipWs(t, a + 1)
      r == Find(t, b, RParen)
  IN  IF LitAt(t, i, Lit.imageSet) /\ a <= Len(t) /\ t[a] = LParen /\ r <= Len(t)
      THEN IF r > b THEN Matched(SubSeq(t, b, r - 1), r)
           ELSE IF b > a + 1 THEN Matched(SubSeq(t, b - 1, r - 1), r)
           ELSE NoMatch
      ELSE NoMatch

RECURSIVE ImageSetMatches(_, _)
ImageSetMatches(t, i) ==
  LET at == {j \in i..Len(t) : ImageSetAt(t, j).ok}
  IN  IF at = {} THEN <<>>
      ELSE LET m == ImageSetAt(t, Least(at))
           IN  <<m.url>> \o ImageSetMatches(t, m.end + 1)

\* /(['"])([^'"]+)\1\s+\d+(?:\.\d+)?(?:x|dppx)/gi at position i.
DirectUrlAt(t, i) ==
  LET r == SkipNonQuotes(t, i + 1)
      c == SkipWs(t, r + 1)
      d == SkipDigits(t, c)
      f == SkipDigits(t, d + 1)
      u == IF d <= Len(t) /\ t[d] = Dot /\ f > d + 1 THEN f ELSE d
  IN  IF /\ i <= Len(t) /\ t[i] \in Quote
         /\ r > i + 1 /\ r <= Len(t) /\ t[r] = t[i]
         /\ c > r + 1 /\ d > c
      THEN IF LitAt(t, u, Lit.x) THEN Matched(SubSeq(t, i + 1, r - 1), u)
           ELSE IF LitAt(t, u, Lit.dppx) THEN Matched(SubSeq(t, i + 1, r - 1), u + 3)
           ELSE NoMatch
      ELSE NoMatch

RECURSIVE DirectUrlMatches(_, _)
DirectUrlMatches(t, i) ==
  LET at == {j \in i..Len(t) : DirectUrlAt(t, j).ok}
  IN  IF at = {} THEN <<>>
      ELSE LET m == DirectUrlAt(t, Least(at))
           IN  <<m.url>> \o DirectUrlMatches(t, m.end + 1)

\* /@import\s+(?:url\s*\(\s*(['"]?)([^'")\s]+)\1\s*\)|(['"])([^'"]+)\3)[^;]*;/gi
\* at position i; the URL is match[2] || match[4].
ImportAt(t, i) ==
  LET a == SkipWs(t, i + 7)
      fn == FuncAt(t, a, Lit.url)
      r == SkipNonQuotes(t, a + 1)
      str == IF a <= Len(t) /\ t[a] \in Quote /\ r > a + 1 /\ r <= Len(t) /\ t[r] = t[a]
             THEN Matched(SubSeq(t, a + 1, r - 1), r) ELSE NoMatch
      semiFn == Find(t, fn.end + 1, Semicolon)
      semiStr == Find(t, str.end + 1, Semicolon)
  IN  IF LitAt(t, i, Lit.import) /\ a > i + 7
      THEN IF fn.ok /\ semiFn <= Len(t) THEN Matched(fn.url, semiFn)
           ELSE IF str.ok /\ semiStr <= Len(t) THEN Matched(str.url, semiStr)
           ELSE NoMatch
      ELSE NoMatch

RECURSIVE ImportMatches(_, _)
ImportMatches(t, i) ==
  LET at == {j \in i..Len(t) : ImportAt(t, j).ok}
  IN  IF at = {} THEN <<>>
      ELSE LET m == ImportAt(t, Least(at))
           IN  <<m.url>> \o ImportMatches(t, m.end + 1)

\* String.prototype.trim
RECURSIVE TrimRight(_)
TrimRight(t) == IF t # <<>> /\ IsWs(t[Len(t)]) THEN TrimRight(SubSeq(t, 1, Len(t) - 1)) ELSE t

Trim(t) == LET a == SkipWs(t, 1) IN TrimRight(SubSeq(t, a, Len(t)))

(***************************************************************************)
(* Resolver: new URL(raw, base).href and URL.origin, for the URLs of the   *)
(* model: http(s) URLs with a host and a path, opaque URLs (data:, blob:)  *)
(* and references relative to an http(s) base.  No URL of the model needs  *)
(* percent-encoding, a port or credentials.                                *)
(***************************************************************************)

Colon == 58
Slash == 47
Hash == 35
Question == 63

IsAlpha(c) == Lower(c) >= 97 /\ Lower(c) <= 122
IsDigit(c) == c >= 48 /\ c <= 57

LowerAll(t) == [i \in 1..Len(t) |-> Lower(t[i])] \o <<>>

StartsWithCodes(t, p) == Len(t) >= Len(p) /\ SubSeq(t, 1, Len(p)) = p

\* The position of the ":" that ends a scheme at the start of t; 0 if t
\* starts with no scheme.
SchemeEnd(t) ==
  LET c == Find(t, 1, Colon)
  IN  IF /\ c <= Len(t) /\ c > 1 /\ IsAlpha(t[1])
         /\ \A k \in 2..(c - 1) : IsAlpha(t[k]) \/ IsDigit(t[k]) \/ t[k] \in {43, 45, 46}
      THEN c ELSE 0

SchemeOf(t) == LowerAll(SubSeq(t, 1, SchemeEnd(t) - 1))

IsSpecial(sch) == sch \in {Lit.http, Lit.https}

\* The first position from i on that holds one of "/", "?", "#".
AuthorityEnd(t, i) == Least({j \in i..Len(t) : t[j] \in {Slash, Question, Hash}} \cup {Len(t) + 1})

\* The first position from i on that holds "?" or "#": the end of the path.
PathEnd(t, i) == Least({j \in i..Len(t) : t[j] \in {Question, Hash}} \cup {Len(t) + 1})

\* t without its fragment.
SansFragment(t) == SubSeq(t, 1, Find(t, 1, Hash) - 1)

\* The segments of a path, "/a/b" giving <<"a", "b">> and "/" giving <<"">>.
RECURSIVE Segments(_)
Segments(path) ==
  LET e == Find(path, 2, Slash)
  IN  IF e > Len(path) THEN <<SubSeq(path, 2, Len(path))>>
      ELSE <<SubSeq(path, 2, e - 1)>> \o Segments(SubSeq(path, e, Len(path)))

\* Dot segments removed: "." is dropped, ".." drops the segment before it.
RECURSIVE NormSegments(_, _)
NormSegments(segs, acc) ==
  IF segs = <<>> THEN acc
  ELSE LET sg == Head(segs)
           last == Len(segs) = 1
       IN  IF sg = <<Dot>>
           THEN NormSegments(Tail(segs), IF last THEN Append(acc, <<>>) ELSE acc)
           ELSE IF sg = <<Dot, Dot>>
           THEN LET up == IF acc = <<>> THEN acc ELSE SubSeq(acc, 1, Len(acc) - 1)
                IN  NormSegments(Tail(segs), IF last THEN Append(up, <<>>) ELSE up)
           ELSE NormSegments(Tail(segs), Append(acc, sg))

RECURSIVE JoinSegments(_)
JoinSegments(segs) ==
  IF segs = <<>> THEN <<>> ELSE <<Slash>> \o Head(segs) \o JoinSegments(Tail(segs))

\* A path (starting with "/") with its dot segments removed.
NormPath(path) ==
  LET n == NormSegments(Segments(path), <<>>)
  IN  IF n = <<>> THEN <<Slash>> ELSE JoinSegments(n)

UrlFailure == [ok |-> FALSE, href |-> <<>>]
UrlOk(h) == [ok |-> TRUE, href |-> h]

\* scheme "://" authority, path and the rest, for text after "scheme:" that
\* starts with "//"; a failure when the host is empty.
WithAuthority(sch, rest) ==
  LET ae == AuthorityEnd(rest, 3)
      pe == PathEnd(rest, ae)
      path == IF pe > ae THEN NormPath(SubSeq(rest, ae, pe - 1)) ELSE <<Slash>>
  IN  IF ae = 3 THEN UrlFailure
      ELSE UrlOk(sch \o <<Colon, Slash, Slash>> \o LowerAll(SubSeq(rest, 3, ae - 1))
                  \o path \o SubSeq(rest, pe, Len(rest)))

\* The origin part "scheme://authority" of an absolute http(s) href.
OriginPart(href) == SubSeq(href, 1, AuthorityEnd(href, SchemeEnd(href) + 3) - 1)

\* The href up to and including the last "/" of its path.
DirPart(href) ==
  LET pe == PathEnd(href, 1)
  IN  SubSeq(href, 1, CHOOSE j \in 1..(pe - 1) :
                        href[j] = Slash /\ \A k \in (j + 1)..(pe - 1) : href[k] # Slash)

\* A reference without a scheme, against an absolute http(s) base.
Relative(raw, base) ==
  LET origin == OriginPart(base)
      pe == PathEnd(raw, 1)
  IN  IF raw = <<>> THEN UrlOk(SansFragment(base))
      ELSE IF raw[1] = Hash THEN UrlOk(SansFragment(base) \o raw)
      ELSE IF raw[1] = Question THEN UrlOk(SubSeq(base, 1, PathEnd(base, 1) - 1) \o raw)
      ELSE IF StartsWithCodes(raw, <<Slash, Slash>>) THEN WithAuthority(SchemeOf(base), raw)
      ELSE IF raw[1] = Slash
      THEN UrlOk(origin \o NormPath(SubSeq(raw, 1, pe - 1)) \o SubSeq(raw, pe, Len(raw)))
      ELSE LET merged == SubSeq(DirPart(base), Len(origin) + 1, Len(DirPart(base)))
                           \o SubSeq(raw, 1, pe - 1)
           IN  UrlOk(origin \o NormPath(merged) \o SubSeq(raw, pe, Len(raw)))

\* new URL(raw, base): the href, or the failure that throws a TypeError.
\* base is an absolute href.  Leading and trailing white space is stripped.
NewURL(raw0, base) ==
  LET raw == Trim(raw0)
      se == SchemeEnd(raw)
      rest == SubSeq(raw, se + 1, Len(raw))
  IN  IF se > 0
      THEN IF IsSpecial(SchemeOf(raw))
           THEN IF StartsWithCodes(rest, <<Slash, Slash>>) THEN WithAuthority(SchemeOf(raw), rest)
                ELSE IF SchemeOf(base) = SchemeOf(raw) THEN Relative(rest, base)
                ELSE WithAuthority(SchemeOf(raw), <<Slash, Slash>> \o rest)
           ELSE UrlOk(SchemeOf(raw) \o <<Colon>> \o rest)
      ELSE IF IsSpecial(SchemeOf(base)) THEN Relative(raw, base)
      ELSE IF raw # <<>> /\ raw[1] = Hash THEN UrlOk(SansFragment(base) \o raw)
      ELSE UrlFailure

\* URL.origin of an absolute href: scheme://host for http(s), the origin of
\* the inner URL for blob:, and the opaque origin "null" otherwise.
RECURSIVE OriginOf(_)
OriginOf(href) ==
  IF IsSpecial(SchemeOf(href)) THEN OriginPart(href)
  ELSE IF SchemeOf(href) = Lit.blob
       THEN LET inner == SubSeq(href, 6, Len(href))
            IN  IF SchemeEnd(inner) > 0 /\ IsSpecial(SchemeOf(inner))
                     /\ StartsWithCodes(SubSeq(inner, SchemeEnd(inner) + 1, Len(inner)), <<Slash, Slash>>)
                THEN OriginPart(inner) ELSE Lit.null
       ELSE Lit.null

(***************************************************************************)
(* Math fingerprinting patterns: hasDangerousMath                          *)
(***************************************************************************)

TrigNames ==
  {Codes("sin"), Codes("cos"), Codes("tan"), Codes("asin"), Codes("acos"),
   Codes("atan"), Codes("atan2")}

\* /calc\s*\([^)]*(?:sin|cos|tan|asin|acos|atan|atan2)\s*\(/i at position i
TrigCalcAt(t, i) ==
  LET a == SkipWs(t, i + 4)
      r == Find(t, a + 1, RParen)
  IN  /\ LitAt(t, i, Lit.calc) /\ a <= Len(t) /\ t[a] = LParen
      /\ \E k \in (a + 1)..(r - 1) : \E name \in TrigNames :
           /\ LitAt(t, k, name)
           /\ LET b == SkipWs(t, k + Len(name)) IN b <= Len(t) /\ t[b] = LParen

\* /env\s*\(\s*(?:safe-area-inset-|viewport-segment-)/i at position i
EnvAt(t, i) ==
  LET a == SkipWs(t, i + 3)
      b == SkipWs(t, a + 1)
  IN  /\ LitAt(t, i, Lit.env) /\ a <= Len(t) /\ t[a] = LParen
      /\ (LitAt(t, b, Lit.safeArea) \/ LitAt(t, b, Lit.viewport))

\* hasDangerousMath(cssText)
hasDangerousMath(cssText) ==
  IF cssText = <<>> \/ cssText = Null THEN FALSE
  ELSE LET normalizedCss == decodeCssEscapes(cssText)
       IN  \E i \in 1..Len(normalizedCss) : TrigCalcAt(normalizedCss, i) \/ EnvAt(normalizedCss, i)

(***************************************************************************)
(* The scan of a text: the part of parseAndPreload, handleImports,         *)
(* fetchURLFromPage and fetchCSSContent that reads no script state.  It    *)
(* gives, in call order, the URLs that reach the preloadedUrls test and    *)
(* the import URLs that reach the parsedCssUrls test.                      *)
(***************************************************************************)

\* document.baseURI
DocBase == "https://p.test/"
DocBaseCodes == Codes(DocBase)

\* location.origin: the serialized origin of the URL of the document.  The
\* script is also injected into about:blank frames (README.md:54): such a
\* frame has the origin and the base URL of the document that created it,
\* and the URL about:blank, whose origin is serialized as "null".
LocationOrigin ==
  OriginOf(IF page.name = "frame" THEN Lit.aboutBlank ELSE DocBaseCodes)

\* No URL: what a dropped candidate resolves to.
NoUrl == ""

\* fetchURLFromPage(url) up to the preloadedUrls test (content.js:198-204):
\* the excluded prefixes and new URL(url, document.baseURI).href.
ProbeTarget(url) ==
  IF \/ url = <<>> \/ StartsWithCodes(url, Lit.dataPrefix)
     \/ StartsWithCodes(url, Lit.hashPrefix) \/ StartsWithCodes(url, Lit.blobPrefix)
  THEN NoUrl
  ELSE LET u == NewURL(url, DocBaseCodes) IN IF u.ok THEN Str(u.href) ELSE NoUrl

\* try { fetchURLFromPage(new URL(raw, baseUrl).href) } catch (e) {}
CandidateTarget(raw, baseUrl) ==
  LET u == NewURL(raw, baseUrl) IN IF u.ok THEN ProbeTarget(u.href) ELSE NoUrl

\* The while loop over the matches of a pattern: the targets of the matches
\* in match order.  The url( ) and image( ) loops skip a match that is
\* empty or starts with "data:".
RECURSIVE CandidateTargets(_, _, _)
CandidateTargets(raws, baseUrl, skipData) ==
  IF raws = <<>> THEN <<>>
  ELSE LET raw == Head(raws)
           target == IF skipData /\ (raw = <<>> \/ StartsWithCodes(raw, Lit.dataPrefix))
                     THEN NoUrl ELSE CandidateTarget(raw, baseUrl)
       IN  <<target>> \o CandidateTargets(Tail(raws), baseUrl, skipData)

\* The image-set( ) loop: for each capture, its url( ) matches and then its
\* quoted strings with a density.
RECURSIVE ImageSetTargets(_, _)
ImageSetTargets(inners, baseUrl) ==
  IF inners = <<>> THEN <<>>
  ELSE CandidateTargets(FuncMatches(Head(inners), 1, Lit.url), baseUrl, FALSE)
         \o CandidateTargets(DirectUrlMatches(Head(inners), 1), baseUrl, FALSE)
         \o ImageSetTargets(Tail(inners), baseUrl)

\* fetchCSSContent(url) up to the request (content.js:88-95): new URL(url)
\* and the origin test.  "direct" is fetch in the page, "proxy" the message
\* to the service worker, "none" the TypeError that makes the result null.
Route(url) ==
  LET u == NewURL(url, <<>>)
  IN  IF ~u.ok THEN "none"
      ELSE IF OriginOf(u.href) # LocationOrigin THEN "proxy" ELSE "direct"

NoImport == [url |-> NoUrl, target |-> NoUrl, via |-> "none"]

\* One match of the import pattern (content.js:236-244): the absolute URL,
\* what fetchURLFromPage makes of it and how fetchCSSContent routes it.
ImportTarget(candidate, baseUrl) ==
  LET u == NewURL(Trim(candidate), baseUrl)
  IN  IF candidate = <<>> \/ ~u.ok THEN NoImport
      ELSE [url |-> Str(u.href), target |-> ProbeTarget(u.href), via |-> Route(u.href)]

\* The while loop of handleImports with a catch that leaves the loop: the
\* matches after a candidate that does not resolve are not looked at.
RECURSIVE ImportTargetsBreak(_, _)
ImportTargetsBreak(candidates, baseUrl) ==
  IF candidates = <<>> THEN <<>>
  ELSE IF ImportTarget(Head(candidates), baseUrl) = NoImport THEN <<>>
  ELSE <<ImportTarget(Head(candidates), baseUrl)>> \o ImportTargetsBreak(Tail(candidates), baseUrl)

\* The while loop of handleImports over the matches of the import pattern.
RECURSIVE ImportTargets(_, _)
ImportTargets(candidates, baseUrl) ==
  IF candidates = <<>> THEN <<>>
  ELSE <<ImportTarget(Head(candidates), baseUrl)>> \o ImportTargets(Tail(candidates), baseUrl)

\* The text without the @media blocks of the color scheme the user does not
\* prefer: what a scan that evaluated the conditions would read.  A block
\* ends with the "}}" that closes its rule and the block.
RECURSIVE WithoutMedia(_, _)
WithoutMedia(t, lit) ==
  LET at == {j \in 1..Len(t) : LitAt(t, j, lit)}
      ends == {k \in Least(at)..(Len(t) - 1) : t[k] = 125 /\ t[k + 1] = 125}
  IN  IF at = {} \/ ends = {} THEN t
      ELSE SubSeq(t, 1, Least(at) - 1) \o WithoutMedia(SubSeq(t, Least(ends) + 2, Len(t)), lit)

\* The scan of a text without the @media blocks that start with lit.
ScanWithoutMedia(cssText, baseUrl, lit) ==
  LET normalizedCss == WithoutMedia(decodeCssEscapes(cssText), lit)
      importCss == decodeCssEscapes(normalizedCss)
  IN  [resources |->
         CandidateTargets(FuncMatches(normalizedCss, 1, Lit.url), baseUrl, TRUE)
           \o CandidateTargets(FuncMatches(normalizedCss, 1, Lit.image), baseUrl, TRUE)
           \o ImageSetTargets(ImageSetMatches(normalizedCss, 1), baseUrl),
       imports |-> ImportTargets(ImportMatches(importCss, 1), baseUrl)]

\* A scan that consults prefers-color-scheme.
ScanMatchingMedia(cssText, baseUrl) ==
  IF scheme = "light" THEN ScanWithoutMedia(cssText, baseUrl, Lit.mediaDark)
  ELSE ScanWithoutMedia(cssText, baseUrl, Lit.mediaLight)

\* The lines of parseAndPreload and handleImports that read the text:
\* parseAndPreload normalizes cssText and scans it for url( ), image( ) and
\* image-set( ); handleImports is handed the normalized text, normalizes it
\* again and scans the result for @import.
Scan(cssText, baseUrl) ==
  LET normalizedCss == decodeCssEscapes(cssText)
      importCss == decodeCssEscapes(normalizedCss)
  IN  [resources |->
         CandidateTargets(FuncMatches(normalizedCss, 1, Lit.url), baseUrl, TRUE)
           \o CandidateTargets(FuncMatches(normalizedCss, 1, Lit.image), baseUrl, TRUE)
           \o ImageSetTargets(ImageSetMatches(normalizedCss, 1), baseUrl),
       imports |-> ImportTargets(ImportMatches(importCss, 1), baseUrl)]

(***************************************************************************)
(* The documents and the servers of the model                              *)
(***************************************************************************)

\* The length of the synthetic import chain s1.css -> s2.css -> ...
ChainLen == 10

NumStr(k) == <<"1", "2", "3", "4", "5", "6", "7", "8", "9", "10", "11", "12">>[k]

ChainUrl(k) == "https://x.test/s" \o NumStr(k) \o ".css"

\* s<k>.css imports its successor in the url( ) form, relative to itself,
\* and references one image.
ChainBody(k) ==
  IF k < ChainLen
  THEN "@import url(s" \o NumStr(k + 1) \o ".css); .s{background:url(i" \o NumStr(k) \o ".png)}"
  ELSE ".s{background:url(i" \o NumStr(k) \o ".png)}"

\* What the servers answer: the body of a URL, or NotFound for a URL that
\* fails (a network error or a non-success status).
NotFound == "<404>"

\* The URLs the servers of a scenario answer.
ServedUrls(name) ==
  CASE name \in {"chain", "chainlink"} -> {ChainUrl(k) : k \in 1..ChainLen}
    [] name = "cycle" -> {"https://x.test/a.css", "https://x.test/b.css"}
    [] name = "race" -> {"https://x.test/r/a.css", "https://x.test/r/b.css", "https://x.test/r/c.css",
                         "https://x.test/r/d.css", "https://x.test/r/e.css"}
    [] name = "links" -> {"https://p.test/own.css"}
    [] name = "excluded" -> {"https://p.test/", "data:text/css,z"}
    [] name = "gen" -> {"https://x.test/r/d.css"}
    [] name = "nested" -> {"https://p.test/n.css"}
    [] name = "frame" -> {"https://p.test/own.css"}
    [] name = "failures" -> {}
    [] name = "twice" -> {"https://x.test/r/d.css"}
    [] name = "isolation" -> {"data:text/css,z", "https://x.test/iso.css", "https://x.test/fine.css",
                              "https://x.test/sib.css"}
    [] name = "proxied" -> {"https://x.test/a.css", "https://x.test/b.css", "https://p.test/own.css"}
    [] name = "both" -> {"https://x.test/both.css", "https://x.test/lk.css", "https://x.test/imp.css"}
    [] OTHER -> {}

Body(url) ==
  IF \E k \in 1..ChainLen : url = ChainUrl(k)
  THEN ChainBody(CHOOSE k \in 1..ChainLen : url = ChainUrl(k))
  ELSE CASE url = "https://x.test/a.css" -> "@import \"b.css\"; .a{background:url(a.png)}"
         [] url = "https://x.test/b.css" -> "@import url(a.css); .b{background:url(b.png)}"
         [] url = "https://x.test/r/a.css" -> "@import \"c.css\";"
         [] url = "https://x.test/r/b.css" -> "@import \"e.css\";"
         [] url = "https://x.test/r/e.css" -> "@import \"c.css\";"
         [] url = "https://x.test/r/c.css" -> "@import \"d.css\";"
         [] url = "https://x.test/r/d.css" -> ".d{background:url(d.png)}"
         [] url = "https://p.test/own.css" -> ".o{width:calc(1px * sin(1)); background:url(own.png)}"
         [] url = "https://p.test/n.css" -> ".l{background:url(l.png)}"
         [] url = "https://x.test/both.css" -> ".z{color:red}"
         [] url = "https://x.test/iso.css" ->
              "@import \"nope2.css\"; .e{background:url(ok3.png)} @import \"fine.css\";"
         [] url = "https://x.test/fine.css" -> ".f{background:url(ok4.png)}"
         [] url = "https://x.test/sib.css" -> ".s{background:url(ok5.png)}"
         [] url = "https://x.test/imp.css" -> ".y{color:red}"
         [] url = "https://x.test/lk.css" -> ".k{background:url(lk.css)}"
         [] url = "https://p.test/" -> "<html>"
         [] url = "data:text/css,z" -> "z"
         [] OTHER -> NotFound

\* What becomes of a request for url: the servers answer with the body
\* ("ok") or with an error status ("status"), no answer arrives ("network"),
\* the answer has a success status and its body cannot be read ("body"), or
\* the service worker cannot be reached with the message ("lastError").
Outcome(url) ==
  IF Body(url) # NotFound THEN "ok"
  ELSE CASE url \in {"https://p.test/offline.css", "https://x.test/down.css"} -> "network"
         [] url \in {"https://p.test/cut.css", "https://x.test/cut.css"} -> "body"
         [] url = "https://x.test/worker.css" -> "lastError"
         [] OTHER -> "status"

\* null, as the result of a fetch.
NoCss == "<null>"

\* A promise that has settled.
Settled(state, css) == [state |-> state, css |-> css]

\* error.message in the service worker.
ErrorMessage(url) ==
  CASE Outcome(url) = "status" -> "HTTP 404"
    [] Outcome(url) = "network" -> "Failed to fetch"
    [] Outcome(url) = "body" -> "network error"
    [] OTHER -> ""

\* A listener without the test of response.ok: the body the servers send
\* with an error status, an empty one, is sent back as the stylesheet.
onMessageAnyStatus(url) ==
  IF Outcome(url) = "ok" THEN [success |-> TRUE, css |-> Body(url), error |-> ""]
  ELSE IF Outcome(url) = "status" THEN [success |-> TRUE, css |-> "", error |-> ""]
  ELSE [success |-> FALSE, css |-> NoCss, error |-> ErrorMessage(url)]

\* The listener of the service worker (content.js:437-460): the response it
\* sends for the message {type: 'fetchCSS', url}.
onMessage(url) ==
  IF Outcome(url) = "ok" THEN [success |-> TRUE, css |-> Body(url), error |-> ""]
  ELSE [success |-> FALSE, css |-> NoCss, error |-> ErrorMessage(url)]

\* The callback of chrome.runtime.sendMessage (content.js:68-79): the value
\* the promise is resolved with.
sendMessageCallback(lastError, response) ==
  IF lastError THEN NoCss
  ELSE IF response.success THEN response.css
  ELSE NoCss

\* fetchCSSViaBackground(url): the promise resolves in the callback of
\* sendMessage.
fetchCSSViaBackground(url) ==
  Settled("fulfilled", sendMessageCallback(Outcome(url) = "lastError", onMessage(url)))

\* The body of the try block of fetchCSSContent (content.js:89-98): new URL
\* throws for via = "none", fetch rejects when no answer arrives.
fetchCSSContentUncaught(url, via) ==
  CASE via = "none" -> Settled("rejected", NoCss)
    [] via = "proxy" -> fetchCSSViaBackground(url)
    [] via = "direct" ->
         IF Outcome(url) \in {"network", "body"} THEN Settled("rejected", NoCss)
         ELSE IF Outcome(url) # "ok" THEN Settled("fulfilled", NoCss)
         ELSE Settled("fulfilled", Body(url))

\* How the promise of fetchCSSContent(url) settles: the try block, and the
\* catch that returns null.
fetchCSSContentSettles(url, via) ==
  IF fetchCSSContentUncaught(url, via).state = "rejected" THEN Settled("fulfilled", NoCss)
  ELSE fetchCSSContentUncaught(url, via)

Node(tag, rel, href, text, hasStyle, style, parent) ==
  [tag |-> tag, rel |-> rel, href |-> href, text |-> text, hasStyle |-> hasStyle,
   style |-> style, parent |-> parent]

StyleNode(text) == Node("STYLE", "", "", text, FALSE, "", 0)
LinkNode(href) == Node("LINK", "stylesheet", href, "", FALSE, "", 0)

PocText ==
  "@media (prefers-color-scheme: light){.a{background:u\\72l(\"https://x.test/light\")}} "
  \o "@media (prefers-color-scheme: dark){.a{background:url(\"https://x.test/dark\")}}"

ExcludedText ==
  ".a{background:url(data:image/png,x)} .b{background:url(#frag)} "
  \o ".c{background:image(blob:https://p.test/1)} .d{background:image-set(\"data:image/png,y\" 1x)} "
  \o "@import \"data:text/css,z\";"

\* Imports of stylesheets that cannot be had.
FailuresText ==
  "@import \"https://x.test/gone.css\"; @import url(https://x.test/worker.css); "
  \o "@import \"/missing.css\"; @import \"offline.css\";"

\* Candidates that do not resolve, candidates that are excluded and imports
\* that fail, among candidates that can be had.
IsolationText ==
  ".a{background:url(https://)} .b{background:url(data:image/png,x)} "
  \o ".c{background:url(ok1.png)} .d{background:image-set(\"https://\" 1x, \"ok2.png\" 2x)} "
  \o "@import \"https://\"; @import \"data:text/css,z\"; "
  \o "@import \"https://x.test/nope.css\"; @import \"https://x.test/iso.css\";"

\* Imports through the service worker, one for each way its fetch can end,
\* and one that is fetched in the page.
ProxiedText ==
  "@import \"https://x.test/a.css\"; @import \"https://x.test/gone.css\"; "
  \o "@import \"https://x.test/down.css\"; @import \"https://x.test/cut.css\"; "
  \o "@import \"https://x.test/worker.css\"; @import \"own.css\";"

\* The nodes of a document, in document order; parent 0 is the document
\* element.
PageNodes(name) ==
  CASE name = "blank" -> <<>>
    [] name = "poc" -> <<StyleNode(PocText)>>
    [] name = "cycle" -> <<StyleNode("@import \"https://x.test/a.css\";")>>
    [] name = "chain" -> <<StyleNode("@import url(https://x.test/s1.css);")>>
    [] name = "chainlink" -> <<StyleNode("@import url(https://x.test/s1.css);"),
                               LinkNode("https://x.test/s3.css")>>
    [] name = "race" -> <<StyleNode("@import \"https://x.test/r/a.css\"; @import \"https://x.test/r/b.css\";")>>
    [] name = "excluded" -> <<StyleNode(ExcludedText)>>
    [] name = "links" -> <<LinkNode("own.css"), LinkNode("/own.css"),
                           Node("DIV", "", "", "", TRUE, "background:url(x/../i.png)", 0),
                           StyleNode(".m{width:calc(2px * cos(0))} .n{background:url(m.png)}"),
                           StyleNode(".o{background:url(i.png)} .q{background:URL('./i.png')}")>>
    [] name = "frame" -> <<LinkNode("own.css")>>
    [] name = "twice" -> <<StyleNode("\\5c 40import \"https://x.test/r/d.css\";")>>
    [] name = "failures" -> <<StyleNode(FailuresText), LinkNode("https://x.test/gone.css"),
                              LinkNode("https://")>>
    [] name = "isolation" -> <<StyleNode(IsolationText), LinkNode("https://x.test/gone.css"),
                               LinkNode("https://x.test/sib.css")>>
    [] name = "proxied" -> <<StyleNode(ProxiedText)>>
    [] name = "both" -> <<StyleNode(".x{background:url(https://x.test/both.css)} "
                                    \o "@import \"https://x.test/both.css\";"),
                          LinkNode("https://x.test/lk.css"),
                          StyleNode("@import \"https://x.test/imp.css\";"),
                          StyleNode(".b{background:url(https://x.test/imp.css)}")>>
    [] name = "nested" -> <<StyleNode(".t{background:url(t.png)}"),
                            Node("DIV", "", "", "", FALSE, "", 0),
                            Node("STYLE", "", "", ".n{background:url(n.png)}", FALSE, "", 2),
                            Node("DIV", "", "", "", TRUE, "background:url(k.png)", 2),
                            Node("LINK", "stylesheet", "n.css", "", FALSE, "", 2)>>


\* The pieces a generated style text is made of.
Pieces ==
  << ".a{background:url(a.png)}",
     ".b{background:url(\"./a.png\")}",
     ".c{background:u\\72l('https://x.test/c.png')}",
     ".d{background:url(data:image/png,x)}",
     ".e{background:url(\"e f.png\")}",
     ".f{background:image(f.png)}",
     "@import \"https://x.test/r/d.css\";",
     "@media (prefers-color-scheme: light){.l{background:url(\"https://x.test/light\")}}",
     "@media (prefers-color-scheme: dark){.k{background:URL( https://x.test/dark )}}" >>

\* The elements of a set of positions, in increasing order.
RECURSIVE InOrder(_)
InOrder(S) == IF S = {} THEN <<>> ELSE <<Least(S)>> \o InOrder(S \ {Least(S)})

\* The text of a generated style element: the chosen pieces, in order.
RECURSIVE Joined(_)
Joined(ps) == IF ps = <<>> THEN "" ELSE Pieces[Head(ps)] \o " " \o Joined(Tail(ps))

GenText(chosen) == Joined(InOrder(chosen))

\* The number of pieces of a generated style text.
MaxGenPieces == 3

GenPages ==
  {[name |-> "gen", pieces |-> c] :
     c \in {d \in SUBSET (1..Len(Pieces)) : Cardinality(d) <= MaxGenPieces}}
NamedPages ==
  {[name |-> n, pieces |-> {}] :
     n \in {"poc", "cycle", "chain", "chainlink", "race", "excluded", "links", "nested",
             "frame", "failures", "twice", "both", "isolation", "proxied"}}

NodesOf(pg) ==
  IF pg.name = "gen" THEN <<StyleNode(GenText(pg.pieces))>> ELSE PageNodes(pg.name)

\* The text disableStylesheetElement writes into a style element, and the
\* text of the style element runContainerBlocking inserts.
DisabledText ==
  "/* [CSS Spy Defender] Disabled: dangerous fingerprinting patterns detected */"

ContainerBlockText ==
  "* { container-type: normal !important; container-name: none !important; }"

\* Every text the script can be handed in the document pg: the text and
\* the style attribute of a node, the texts the script itself writes, and the
\* body of a served URL.
DocTexts(pg) ==
  ({NodesOf(pg)[n].text : n \in 1..Len(NodesOf(pg))}
     \cup {NodesOf(pg)[n].style : n \in 1..Len(NodesOf(pg))}
     \cup {DisabledText, ContainerBlockText}) \ {""}

\* The texts with the base URL they are scanned under.
Sources(pg) ==
  {<<t, DocBase>> : t \in DocTexts(pg)} \cup {<<Body(u), u>> : u \in ServedUrls(pg.name)}

\* link.href: the href attribute resolved against document.baseURI, "" when
\* the attribute is absent and the attribute as written when it does not
\* parse; and the route of its fetch.
LinkTarget(h) ==
  LET u == NewURL(Codes(h), DocBaseCodes)
  IN  IF h = "" THEN [url |-> NoUrl, via |-> "none"]
      ELSE IF ~u.ok THEN [url |-> h, via |-> "none"]
      ELSE [url |-> Str(u.href), via |-> Route(u.href)]

\* What the pure functions of the script give for the texts and the href
\* attributes of the document pg.  They depend on the text only, so they are
\* computed when the document is loaded and looked up when a handler runs.
Analysis(pg) ==
  [scan |-> [src \in Sources(pg) |-> Scan(Codes(src[1]), Codes(src[2]))],
   math |-> [t \in DocTexts(pg) \cup {Body(u) : u \in ServedUrls(pg.name)} |->
               hasDangerousMath(Codes(t))],
   href |-> [h \in {NodesOf(pg)[n].href : n \in 1..Len(NodesOf(pg))} |-> LinkTarget(h)]]

(***************************************************************************)
(* The loaded document                                                     *)
(***************************************************************************)

Nodes == NodesOf(page)
NodeIds == 1..Len(Nodes)

\* A node and its descendants.
RECURSIVE Ancestors(_)
Ancestors(n) == IF Nodes[n].parent = 0 THEN {} ELSE {Nodes[n].parent} \cup Ancestors(Nodes[n].parent)

Subtree(r) == {n \in NodeIds : n = r \/ r \in Ancestors(n)}
Roots == {n \in NodeIds : Nodes[n].parent = 0}

\* querySelectorAll("link[rel='stylesheet']") and node.rel === 'stylesheet'
IsStylesheetLink(n) == Nodes[n].tag = "LINK" /\ Nodes[n].rel = "stylesheet"

LinkHref(n) == analysed.href[Nodes[n].href]

\* hasDangerousMath(cssText), looked up; an empty text holds nothing dangerous.
IsDangerous(cssText) == cssText # "" /\ analysed.math[cssText]

(***************************************************************************)
(* Fetch Orchestrator and Import Walker.  The operators take and give the  *)
(* script state es (the seen-sets, the requests made, the fetches in       *)
(* flight and what the script wrote into the document), so that a handler  *)
(* is the composition of the calls it makes.                               *)
(***************************************************************************)

IMPORT_MAX_DEPTH == 3

Engine ==
  [preloadedUrls |-> preloadedUrls, parsedCssUrls |-> parsedCssUrls,
   probes |-> probes, attached |-> attached, awaiting |-> awaiting,
   issued |-> issued, pending |-> pending, settled |-> settled, port |-> port,
   mathProtectedElements |-> mathProtectedElements, styleText |-> styleText,
   linkDisabled |-> linkDisabled]

EngineBecomes(es) ==
  /\ preloadedUrls' = es.preloadedUrls
  /\ parsedCssUrls' = es.parsedCssUrls
  /\ probes' = es.probes
  /\ attached' = es.attached
  /\ awaiting' = es.awaiting
  /\ issued' = es.issued
  /\ pending' = es.pending
  /\ settled' = es.settled
  /\ port' = es.port
  /\ mathProtectedElements' = es.mathProtectedElements
  /\ styleText' = es.styleText
  /\ linkDisabled' = es.linkDisabled

\* The img without setTimeout(cleanup, 10000).
ProbeNoTimer(es, url) ==
  [es EXCEPT !.probes = @ (+) SetToBag({url}),
             !.attached = @ \cup {url},
             !.awaiting = @ \cup {<<url, "img">>}]

\* The img of fetchURLFromPage (content.js:209-219): it is appended to the
\* document, and cleanup is set for its load, its error and a timer.
Probe(es, url) ==
  [es EXCEPT !.probes = @ (+) SetToBag({url}),
             !.attached = @ \cup {url},
             !.awaiting = @ \cup {<<url, "img">>, <<url, "timeout">>}]

\* fetchURLFromPage without the preloadedUrls.has(url) test.
fetchURLFromPageNoDedup(es, url) ==
  IF url = NoUrl THEN es
  ELSE Probe([es EXCEPT !.preloadedUrls = @ \cup {url}], url)

\* fetchURLFromPage with one seen-set for both purposes: a URL that is marked
\* as a parsed stylesheet is not load-triggered.
fetchURLFromPageOneSet(es, url) ==
  IF url = NoUrl \/ url \in es.preloadedUrls \/ url \in es.parsedCssUrls THEN es
  ELSE Probe([es EXCEPT !.preloadedUrls = @ \cup {url}], url)

\* fetchURLFromPage(url) from the preloadedUrls test on (content.js:206-219),
\* for the URL that ProbeTarget gives: an img probe, once per absolute URL.
fetchURLFromPage(es, url) ==
  IF url = NoUrl \/ url \in es.preloadedUrls THEN es
  ELSE Probe([es EXCEPT !.preloadedUrls = @ \cup {url}], url)

RECURSIVE PreloadEach(_, _)
PreloadEach(es, urls) ==
  IF urls = <<>> THEN es ELSE PreloadEach(fetchURLFromPage(es, Head(urls)), Tail(urls))

\* fetchCSSContent(url): the request, and the continuation cont that the
\* caller attaches to the promise.  Nothing is requested when new URL threw;
\* the promise settles all the same.
fetchCSSContent(es, url, via, cont) ==
  [es EXCEPT !.issued = IF via = "none" THEN @
                        ELSE @ (+) SetToBag({[url |-> url, via |-> via, by |-> cont.by]}),
             !.pending = @ \cup {[url |-> url, via |-> via, by |-> cont.by,
                                  depth |-> cont.depth, node |-> cont.node]}]

\* The body of the while loop of handleImports without the
\* parsedCssUrls.has(absoluteUrl) test.
ImportCandidateNoDedup(es, imp, depth) ==
  IF imp.url = NoUrl THEN es
  ELSE fetchCSSContent(
         fetchURLFromPage([es EXCEPT !.parsedCssUrls = @ \cup {imp.url}], imp.target),
         imp.url, imp.via, [by |-> "import", depth |-> depth + 1, node |-> 0])

\* The body of the while loop of handleImports with a continuation that
\* recurses at the depth of the importing scope.
ImportCandidateSameDepth(es, imp, depth) ==
  IF imp.url = NoUrl \/ imp.url \in es.parsedCssUrls THEN es
  ELSE fetchCSSContent(
         fetchURLFromPage([es EXCEPT !.parsedCssUrls = @ \cup {imp.url}], imp.target),
         imp.url, imp.via, [by |-> "import", depth |-> depth, node |-> 0])

\* The body of the while loop of handleImports for one match, from the
\* parsedCssUrls test on (content.js:246-255).
ImportCandidate(es, imp, depth) ==
  IF imp.url = NoUrl \/ imp.url \in es.parsedCssUrls THEN es
  ELSE fetchCSSContent(
         fetchURLFromPage([es EXCEPT !.parsedCssUrls = @ \cup {imp.url}], imp.target),
         imp.url, imp.via, [by |-> "import", depth |-> depth + 1, node |-> 0])

RECURSIVE ImportCandidates(_, _, _)
ImportCandidates(es, imports, depth) ==
  IF imports = <<>> THEN es
  ELSE ImportCandidates(ImportCandidate(es, Head(imports), depth), Tail(imports), depth)

\* handleImports(cssText, {depth, baseUrl}); imports is what Scan finds in
\* cssText under baseUrl.
handleImports(es, imports, depth) ==
  IF depth >= IMPORT_MAX_DEPTH THEN es ELSE ImportCandidates(es, imports, depth)

\* parseAndPreload(cssText, {depth, baseUrl})
parseAndPreload(es, cssText, depth, baseUrl) ==
  IF cssText = "" THEN es
  ELSE handleImports(PreloadEach(es, analysed.scan[<<cssText, baseUrl>>].resources),
                     analysed.scan[<<cssText, baseUrl>>].imports, depth)

(***************************************************************************)
(* The defenses: the sweeps of runMathFingerprintingProtection and         *)
(* runPreloading, and their MutationObserver callbacks                     *)
(***************************************************************************)

\* disableStylesheetElement(el)
disableStylesheetElement(es, n) ==
  IF Nodes[n].tag = "STYLE" THEN [es EXCEPT !.styleText[n] = DisabledText]
  ELSE IF Nodes[n].tag = "LINK" THEN [es EXCEPT !.linkDisabled = @ \cup {n}]
  ELSE es

\* The math check of a style element (content.js:141-145, 167-171).
MathCheckStyle(es, n) ==
  LET seen == [es EXCEPT !.mathProtectedElements = @ \cup {n}]
  IN  IF n \in es.mathProtectedElements THEN es
      ELSE IF IsDangerous(es.styleText[n]) THEN disableStylesheetElement(seen, n)
      ELSE seen

\* The math check of a stylesheet link (content.js:150-157, 173-181): the
\* text is fetched, whatever parsedCssUrls holds.
MathCheckLink(es, n) ==
  LET seen == [es EXCEPT !.mathProtectedElements = @ \cup {n}]
  IN  IF n \in es.mathProtectedElements THEN es
      ELSE IF LinkHref(n).url = NoUrl THEN seen
      ELSE fetchCSSContent(seen, LinkHref(n).url, LinkHref(n).via,
                           [by |-> "math", depth |-> 0, node |-> n])

\* The stylesheet link fetched without parsedCssUrls.add(absUrl).
PreloadLinkUnmarked(es, n) ==
  IF LinkHref(n).url = NoUrl \/ LinkHref(n).url \in es.parsedCssUrls THEN es
  ELSE fetchCSSContent(es, LinkHref(n).url, LinkHref(n).via,
                       [by |-> "link", depth |-> 0, node |-> 0])

\* The stylesheet link of the sweep and of the observer (content.js:334-341,
\* 353-360).
PreloadLink(es, n) ==
  IF LinkHref(n).url = NoUrl \/ LinkHref(n).url \in es.parsedCssUrls THEN es
  ELSE fetchCSSContent([es EXCEPT !.parsedCssUrls = @ \cup {LinkHref(n).url}],
                       LinkHref(n).url, LinkHref(n).via,
                       [by |-> "link", depth |-> 0, node |-> 0])

PreloadStyle(es, n) == parseAndPreload(es, es.styleText[n], 0, DocBase)

PreloadInline(es, n) == parseAndPreload(es, Nodes[n].style, 0, DocBase)

\* One forEach of a sweep, over the nodes ns in document order.
RECURSIVE ForEach(_, _, _)
ForEach(es, ns, what) ==
  IF ns = <<>> THEN es
  ELSE LET n == Head(ns)
           next == CASE what = "mathStyle" -> MathCheckStyle(es, n)
                     [] what = "mathLink" -> MathCheckLink(es, n)
                     [] what = "style" -> PreloadStyle(es, n)
                     [] what = "inline" -> PreloadInline(es, n)
                     [] what = "link" -> PreloadLink(es, n)
       IN  ForEach(next, Tail(ns), what)

Styles(D) == InOrder({n \in D : Nodes[n].tag = "STYLE"})
Inlines(D) == InOrder({n \in D : Nodes[n].hasStyle})
Links(D) == InOrder({n \in D : IsStylesheetLink(n)})

\* runMathFingerprintingProtection(): the two sweeps over the document D.
runMathFingerprintingProtection(es, D) ==
  ForEach(ForEach(es, Styles(D), "mathStyle"), Links(D), "mathLink")

\* runPreloading(): the three sweeps over the document D.
runPreloading(es, D) ==
  ForEach(ForEach(ForEach(es, Styles(D), "style"), Inlines(D), "inline"), Links(D), "link")

\* The observer callback of runMathFingerprintingProtection for an added
\* node r: the node itself only.
MathObserver(es, r) ==
  IF Nodes[r].tag = "STYLE" THEN MathCheckStyle(es, r)
  ELSE IF IsStylesheetLink(r) THEN MathCheckLink(es, r)
  ELSE es

\* The observer callback of runPreloading for an added node r: the node by
\* its kind, then the descendants that carry a style attribute.
PreloadObserver(es, r) ==
  LET own == IF Nodes[r].tag = "STYLE" THEN PreloadStyle(es, r)
             ELSE IF IsStylesheetLink(r) THEN PreloadLink(es, r)
             ELSE IF Nodes[r].hasStyle THEN PreloadInline(es, r)
             ELSE es
  IN  ForEach(own, Inlines(Subtree(r) \ {r}), "inline")

\* Both observers, in the order init registered them.
Observers(es, r, opts) ==
  LET m == IF opts.blockMathFingerprinting THEN MathObserver(es, r) ELSE es
  IN  IF opts.usePreloading THEN PreloadObserver(m, r) ELSE m

\* runContainerBlocking(): the element is inserted when the observers are
\* registered already, and the preloading observer scans its text.
runContainerBlocking(es, opts) ==
  IF opts.usePreloading THEN parseAndPreload(es, ContainerBlockText, 0, DocBase) ELSE es

(***************************************************************************)
(* Actions                                                                 *)
(***************************************************************************)

OptionKeys == {"usePreloading", "blockContainer", "blockMathFingerprinting"}

NoOptions ==
  [read |-> FALSE, usePreloading |-> FALSE, blockContainer |-> FALSE,
   blockMathFingerprinting |-> FALSE]

\* data.key ?? false: a toggle that is off when nothing is stored.
StoredOrFalse(key) == store[key] = "on"

\* data.key ?? true
StoredOrTrue(key) == store[key] # "off"

\* popup.js:8-12
defaults ==
  [k \in OptionKeys |-> k = "usePreloading"]

\* The popup before it is opened; opened reads "shown" once the callback of
\* chrome.storage.sync.get has set the checkboxes, "edited" once the user has
\* clicked one.
PopupClosed == [opened |-> "no", checked |-> [k \in OptionKeys |-> FALSE]]

\* A click on Save: the settings it read from the checkboxes; "writing"
\* while chrome.storage.sync.set is under way, "querying" while
\* chrome.tabs.query is, "done" afterwards; and the tab that
\* chrome.tabs.reload was called for.
Saving(stage, settings, reloaded) ==
  [stage |-> stage, settings |-> settings, reloaded |-> reloaded]

NotSaving == Saving("idle", [k \in OptionKeys |-> FALSE], "none")

\* The settings as the store holds them.
StoredAs(settings) == [k \in OptionKeys |-> IF settings[k] THEN "on" ELSE "off"]

NoRun ==
  [known |-> FALSE, scheme |-> "", inserts |-> 0, preloadedUrls |-> {}, parsedCssUrls |-> {},
   probes |-> EmptyBag, fetched |-> {}]

\* The state of a freshly loaded document: nothing parsed yet, the content
\* script injected at document_start, its storage callback not yet run.
FreshDocument ==
  /\ options = NoOptions
  /\ dom = {}
  /\ styleText = [n \in NodeIds |-> Nodes[n].text]
  /\ linkDisabled = {}
  /\ overrideStyle = FALSE
  /\ mathProtectedElements = {}
  /\ preloadedUrls = {}
  /\ parsedCssUrls = {}
  /\ probes = EmptyBag
  /\ attached = {}
  /\ awaiting = {}
  /\ issued = EmptyBag
  /\ pending = {}
  /\ settled = {}
  /\ port = {}
  /\ inserts = 0

NoDecoding == decText = <<>> /\ decPasses = <<>>

Init ==
  /\ page \in NamedPages
  /\ scheme \in {"light", "dark"}
  /\ analysed = Analysis(page)
  /\ store \in {[k \in OptionKeys |-> "unset"],
                [k \in OptionKeys |-> IF k = "blockMathFingerprinting" THEN "off" ELSE "unset"]}
  /\ FreshDocument
  /\ reloads = 0
  /\ lastRun = NoRun
  /\ checkboxes = PopupClosed
  /\ saving = NotSaving
  /\ NoDecoding

\* init(): the callback of chrome.storage.sync.get.  The defenses run over
\* the document as it is at that moment.
Activate ==
  /\ ~options.read
  /\ LET opts == [read |-> TRUE,
                  usePreloading |-> StoredOrTrue("usePreloading"),
                  blockContainer |-> StoredOrTrue("blockContainer"),
                  blockMathFingerprinting |-> StoredOrTrue("blockMathFingerprinting")]
         e1 == IF opts.blockMathFingerprinting
               THEN runMathFingerprintingProtection(Engine, dom) ELSE Engine
         e2 == IF opts.usePreloading THEN runPreloading(e1, dom) ELSE e1
         e3 == IF opts.blockContainer THEN runContainerBlocking(e2, opts) ELSE e2
     IN  /\ options' = opts
         /\ overrideStyle' = opts.blockContainer
         /\ EngineBecomes(e3)
  /\ UNCHANGED <<page, analysed, scheme, store, dom, inserts, reloads, lastRun,
               checkboxes, saving, decVars>>

\* The parser or a script of the page inserts the subtree of a node r of the
\* document element; the registered observers are called with r.
InsertNode(r) ==
  /\ r \in Roots \ dom
  /\ dom' = dom \cup Subtree(r)
  /\ IF options.read THEN EngineBecomes(Observers(Engine, r, options))
     ELSE UNCHANGED <<engineVars, styleText, linkDisabled, mathProtectedElements>>
  /\ UNCHANGED <<page, analysed, scheme, store, options, overrideStyle, inserts, reloads, lastRun,
               checkboxes, saving, decVars>>

\* The number of times a script takes a node out and puts it back.
MaxReinserts == 1

\* A script of the page removes node r and inserts it again: the observers
\* are called with r once more.
ReinsertNode(r) ==
  /\ options.read
  /\ inserts < MaxReinserts
  /\ r \in Roots \cap dom
  /\ inserts' = inserts + 1
  /\ EngineBecomes(Observers(Engine, r, options))
  /\ UNCHANGED <<page, analysed, scheme, store, options, dom, overrideStyle, reloads, lastRun,
               checkboxes, saving, decVars>>

\* A continuation that takes the URL of a failed fetch out of parsedCssUrls,
\* so that the stylesheet is fetched again when it is met again.
ContinuationRetry(es, p, r) ==
  IF r.state = "rejected" \/ r.css = NoCss \/ r.css = ""
  THEN [es EXCEPT !.parsedCssUrls = @ \ {p.url}]
  ELSE IF p.by = "math"
       THEN IF IsDangerous(r.css) THEN disableStylesheetElement(es, p.node) ELSE es
       ELSE parseAndPreload(es, r.css, p.depth, p.url)

\* The continuation of a text fetch that settled as r: nothing runs on a
\* rejection, and if (css) lets neither null nor an empty body through.
Continuation(es, p, r) ==
  IF r.state = "rejected" \/ r.css = NoCss \/ r.css = "" THEN es
  ELSE IF p.by = "math"
       THEN IF IsDangerous(r.css) THEN disableStylesheetElement(es, p.node) ELSE es
       ELSE parseAndPreload(es, r.css, p.depth, p.url)

\* The message {type: 'fetchCSS', url} of the request p: the responses the
\* service worker has sent for it, the values its promise was resolved with,
\* and where it stands: "fetch" while the fetch of the worker is in flight,
\* "response" once sendResponse was called, "done" once the callback ran.
Message(p, stage, responses, resolves) ==
  [req |-> p, stage |-> stage, responses |-> responses, resolves |-> resolves]

\* The whole round trip of the message of p.
RoundTrip(p) ==
  IF Outcome(p.url) = "lastError" THEN Message(p, "done", <<>>, <<NoCss>>)
  ELSE Message(p, "done", <<onMessage(p.url)>>,
               <<sendMessageCallback(FALSE, onMessage(p.url))>>)

\* The promise of the request p settles as r, and the continuation runs.
Resume(es, p, r) ==
  Continuation([es EXCEPT !.pending = @ \ {p},
                          !.settled = @ \cup {[url |-> p.url, via |-> p.via, by |-> p.by,
                                               state |-> r.state, css |-> r.css]}],
               p, r)

\* A text fetch in flight completes or fails, and its continuation runs.
FetchComplete(p) ==
  /\ p \in pending
  /\ \E r \in {fetchCSSContentSettles(p.url, p.via)} :
       \E es \in {Resume([Engine EXCEPT !.port = IF p.via = "proxy" THEN @ \cup {RoundTrip(p)}
                                                  ELSE @],
                          p, r)} :
         EngineBecomes(es)
  /\ UNCHANGED <<page, analysed, scheme, store, options, dom, overrideStyle, inserts, reloads, lastRun,
               checkboxes, saving, decVars>>

\* cleanup (content.js:216-219) runs for the probe of url: on the load or the
\* error of the img, whichever the request ends with, or on the timer.
\* img.remove() takes the img out of the document if it is still there.
ProbeEvent(url, event) ==
  /\ <<url, IF event = "timeout" THEN "timeout" ELSE "img">> \in awaiting
  /\ EngineBecomes([Engine EXCEPT
                      !.awaiting = @ \ {<<url, IF event = "timeout" THEN "timeout" ELSE "img">>},
                      !.attached = @ \ {url}])
  /\ UNCHANGED <<page, analysed, scheme, store, options, dom, overrideStyle, inserts, reloads,
                 lastRun, checkboxes, saving, decVars>>

\* The listener of the service worker is called with the message of the
\* request p and calls fetch(url) (content.js:437-443).
Listener(p) ==
  /\ p \in pending /\ p.via = "proxy"
  /\ Outcome(p.url) # "lastError"
  /\ \A m \in port : m.req # p
  /\ EngineBecomes([Engine EXCEPT !.port = @ \cup {Message(p, "fetch", <<>>, <<>>)}])
  /\ UNCHANGED <<page, analysed, scheme, store, options, dom, overrideStyle, inserts, reloads,
                 lastRun, checkboxes, saving, decVars>>

\* The fetch of the service worker completes or fails: the last then
\* callback or the catch callback calls sendResponse (content.js:444-456).
SendResponse(m) ==
  /\ m \in port /\ m.stage = "fetch"
  /\ EngineBecomes([Engine EXCEPT
                      !.port = (@ \ {m}) \cup
                               {Message(m.req, "response",
                                        Append(m.responses, onMessage(m.req.url)), m.resolves)}])
  /\ UNCHANGED <<page, analysed, scheme, store, options, dom, overrideStyle, inserts, reloads,
                 lastRun, checkboxes, saving, decVars>>

\* The callback of sendMessage runs with the response of the service worker
\* (content.js:68-79): the promise resolves and the continuation runs.
Callback(m) ==
  /\ m \in port /\ m.stage = "response" /\ m.req \in pending
  /\ \E css \in {sendMessageCallback(FALSE, m.responses[Len(m.responses)])} :
       \E es \in {Resume([Engine EXCEPT
                             !.port = (@ \ {m}) \cup
                                      {Message(m.req, "done", m.responses, Append(m.resolves, css))}],
                          m.req, Settled("fulfilled", css))} :
         EngineBecomes(es)
  /\ UNCHANGED <<page, analysed, scheme, store, options, dom, overrideStyle, inserts, reloads,
                 lastRun, checkboxes, saving, decVars>>

\* The callback of sendMessage runs with chrome.runtime.lastError set: the
\* service worker was not reached.
CallbackLastError(p) ==
  /\ p \in pending /\ p.via = "proxy"
  /\ Outcome(p.url) = "lastError"
  /\ \A m \in port : m.req # p
  /\ \E css \in {sendMessageCallback(TRUE, onMessage(p.url))} :
       \E es \in {Resume([Engine EXCEPT !.port = @ \cup {Message(p, "done", <<>>, <<css>>)}],
                          p, Settled("fulfilled", css))} :
         EngineBecomes(es)
  /\ UNCHANGED <<page, analysed, scheme, store, options, dom, overrideStyle, inserts, reloads,
                 lastRun, checkboxes, saving, decVars>>

\* Nothing is left to happen in this document: the defenses ran, the whole
\* document is inserted and no fetch is in flight.
Quiescent == options.read /\ dom = NodeIds /\ pending = {}

ThisRun ==
  [known |-> Quiescent, scheme |-> scheme, inserts |-> inserts, preloadedUrls |-> preloadedUrls,
   parsedCssUrls |-> parsedCssUrls, probes |-> probes,
   fetched |-> {r.url : r \in BagToSet(issued)}]

MaxReloads == 1

\* chrome.tabs.reload (popup.js:44), or the user reloading the tab: the same
\* document is loaded again, with a fresh content script.  The color scheme
\* of the user may have changed in between.
ReloadDocument ==
  /\ reloads < MaxReloads
  /\ reloads' = reloads + 1
  /\ lastRun' = IF Quiescent THEN ThisRun ELSE NoRun
  /\ options' = NoOptions
  /\ dom' = {}
  /\ styleText' = [n \in NodeIds |-> Nodes[n].text]
  /\ linkDisabled' = {}
  /\ overrideStyle' = FALSE
  /\ mathProtectedElements' = {}
  /\ preloadedUrls' = {}
  /\ parsedCssUrls' = {}
  /\ probes' = EmptyBag
  /\ attached' = {}
  /\ awaiting' = {}
  /\ issued' = EmptyBag
  /\ pending' = {}
  /\ settled' = {}
  /\ port' = {}
  /\ inserts' = 0
  /\ scheme' \in {"light", "dark"}
  /\ UNCHANGED <<page, analysed, decVars>>

\* The user reloads the tab.
Reload == ReloadDocument /\ UNCHANGED <<store, checkboxes, saving>>

\* The popup is opened: the callback of chrome.storage.sync.get sets every
\* checkbox to data[key] ?? defaults[key] (popup.js:20-26).
PopupOpen ==
  /\ checkboxes.opened = "no"
  /\ checkboxes' = [opened |-> "shown",
                    checked |-> [k \in OptionKeys |->
                                   IF store[k] = "unset" THEN defaults[k] ELSE store[k] = "on"]]
  /\ UNCHANGED <<page, analysed, scheme, store, options, domVars, engineVars, inserts, reloads,
                 lastRun, saving, decVars>>

\* The user clicks a checkbox of the popup, or closes the popup.
PopupClick(key) ==
  /\ checkboxes.opened # "no"
  /\ checkboxes' = IF key = "close" THEN PopupClosed
                   ELSE [opened |-> "edited",
                         checked |-> [checkboxes.checked EXCEPT ![key] = ~@]]
  /\ UNCHANGED <<page, analysed, scheme, store, options, domVars, engineVars, inserts, reloads,
                 lastRun, saving, decVars>>

\* The click on Save with its callbacks (popup.js:29-52), in one step: the
\* three checkboxes are stored, and the active tab is reloaded, which is
\* this tab or another one.
PopupSave ==
  /\ checkboxes.opened # "no"
  /\ store' = StoredAs(checkboxes.checked)
  /\ UNCHANGED checkboxes
  /\ \/ ReloadDocument /\ saving' = Saving("done", checkboxes.checked, "this")
     \/ /\ saving' = Saving("done", checkboxes.checked, "other")
        /\ UNCHANGED <<page, analysed, scheme, options, domVars, engineVars, inserts, reloads,
                       lastRun, decVars>>

\* A click handler that calls chrome.tabs.reload itself, without waiting for
\* the callback of chrome.storage.sync.set.
SaveClickReloads ==
  /\ checkboxes.opened # "no"
  /\ saving.stage \notin {"writing", "querying"}
  /\ saving' = Saving("writing", checkboxes.checked, "this")
  /\ ReloadDocument
  /\ UNCHANGED <<store, checkboxes>>

\* The click on Save (popup.js:29-37): the settings are read from the
\* checkboxes and handed to chrome.storage.sync.set.  One save is under way
\* at a time.
SaveClick ==
  /\ checkboxes.opened # "no"
  /\ saving.stage \notin {"writing", "querying"}
  /\ saving' = Saving("writing", checkboxes.checked, "none")
  /\ UNCHANGED <<page, analysed, scheme, store, options, domVars, engineVars, inserts, reloads,
                 lastRun, checkboxes, decVars>>

\* The store has written the settings and calls the callback of set
\* (popup.js:37-46), which calls chrome.tabs.query; no callback runs in a
\* popup that was closed.
SetCallback ==
  /\ saving.stage = "writing"
  /\ store' = StoredAs(saving.settings)
  /\ saving' = Saving(IF checkboxes.opened = "no" THEN "done" ELSE "querying",
                      saving.settings, saving.reloaded)
  /\ UNCHANGED <<page, analysed, scheme, options, domVars, engineVars, inserts, reloads,
                 lastRun, checkboxes, decVars>>

\* The callback of chrome.tabs.query (popup.js:42-46): the active tab is
\* reloaded, which is this tab or another one.
QueryCallback ==
  /\ saving.stage = "querying"
  /\ UNCHANGED <<store, checkboxes>>
  /\ IF checkboxes.opened = "no"
     THEN /\ saving' = Saving("done", saving.settings, saving.reloaded)
          /\ UNCHANGED <<page, analysed, scheme, options, domVars, engineVars, inserts, reloads,
                         lastRun, decVars>>
     ELSE \/ ReloadDocument /\ saving' = Saving("done", saving.settings, "this")
          \/ /\ saving' = Saving("done", saving.settings, "other")
             /\ UNCHANGED <<page, analysed, scheme, options, domVars, engineVars, inserts,
                            reloads, lastRun, decVars>>

Next ==
  \/ Activate
  \/ \E r \in NodeIds : InsertNode(r)
  \/ \E r \in NodeIds : ReinsertNode(r)
  \/ \E p \in pending : FetchComplete(p)
  \/ Reload

Spec == Init /\ [][Next]_vars

\* The same script on documents that hold one style element with a generated
\* text, or the text of the proof of concept, all defenses enabled.
InitScan ==
  /\ page \in GenPages \cup {[name |-> "poc", pieces |-> {}]}
  /\ scheme \in {"light", "dark"}
  /\ analysed = Analysis(page)
  /\ store = [k \in OptionKeys |-> "unset"]
  /\ FreshDocument
  /\ reloads = 0
  /\ lastRun = NoRun
  /\ checkboxes = PopupClosed
  /\ saving = NotSaving
  /\ NoDecoding

SpecScan == InitScan /\ [][Next]_vars

\* The import walker on the documents that start an import graph, every
\* fetch in flight completing or failing eventually.
InitWalk ==
  /\ page \in {pg \in NamedPages : pg.name \in {"cycle", "chain", "chainlink", "race"}}
  /\ scheme = "light"
  /\ analysed = Analysis(page)
  /\ store = [k \in OptionKeys |-> "unset"]
  /\ FreshDocument
  /\ reloads = 0
  /\ lastRun = NoRun
  /\ checkboxes = PopupClosed
  /\ saving = NotSaving
  /\ NoDecoding

SpecWalk == InitWalk /\ [][Next]_vars /\ WF_vars(\E p \in pending : FetchComplete(p))

\* The script with the events of its probes: the load or error of an img may
\* never come, the timer of a probe fires.
InitProbes ==
  /\ page \in {pg \in NamedPages : pg.name \in {"poc", "cycle"}}
  /\ scheme = "light"
  /\ analysed = Analysis(page)
  /\ store = [k \in OptionKeys |-> "unset"]
  /\ FreshDocument
  /\ reloads = 0
  /\ lastRun = NoRun
  /\ checkboxes = PopupClosed
  /\ saving = NotSaving
  /\ NoDecoding

NextProbes ==
  \/ Next
  \/ \E url \in preloadedUrls : \E event \in {"load", "error", "timeout"} : ProbeEvent(url, event)

SpecProbes ==
  InitProbes /\ [][NextProbes]_vars
  /\ WF_vars(\E url \in preloadedUrls : ProbeEvent(url, "timeout"))

\* The script with the message to the service worker taken handler by
\* handler: the listener, the callbacks of its fetch, the callback of
\* sendMessage.  A message that was sent is delivered, the fetch of the
\* service worker completes or fails, and the callback of sendMessage runs.
InitProxy ==
  /\ page \in {pg \in NamedPages : pg.name \in {"proxied", "cycle"}}
  /\ scheme = "light"
  /\ analysed = Analysis(page)
  /\ store = [k \in OptionKeys |-> "unset"]
  /\ FreshDocument
  /\ reloads = 0
  /\ lastRun = NoRun
  /\ checkboxes = PopupClosed
  /\ saving = NotSaving
  /\ NoDecoding

ProxyStep ==
  \/ \E p \in pending : Listener(p)
  \/ \E m \in port : SendResponse(m)
  \/ \E m \in port : Callback(m)
  \/ \E p \in pending : CallbackLastError(p)

NextProxy ==
  \/ Activate
  \/ \E r \in NodeIds : InsertNode(r)
  \/ \E r \in NodeIds : ReinsertNode(r)
  \/ \E p \in pending : p.via # "proxy" /\ FetchComplete(p)
  \/ Reload
  \/ ProxyStep

SpecProxy == InitProxy /\ [][NextProxy]_vars /\ WF_vars(ProxyStep)

\* The script and the popup with the click on Save taken callback by
\* callback: the click, the callback of chrome.storage.sync.set, the callback
\* of chrome.tabs.query.
InitSave ==
  /\ page = [name |-> "twice", pieces |-> {}]
  /\ scheme = "light"
  /\ analysed = Analysis(page)
  /\ store = [k \in OptionKeys |-> "on"]
  /\ FreshDocument
  /\ reloads = 0
  /\ lastRun = NoRun
  /\ checkboxes = PopupClosed
  /\ saving = NotSaving
  /\ NoDecoding

NextSave ==
  \/ Next
  \/ PopupOpen
  \/ \E key \in OptionKeys \cup {"close"} : PopupClick(key)
  \/ SaveClick
  \/ SetCallback
  \/ QueryCallback

SpecSave == InitSave /\ [][NextSave]_vars

\* The script and the popup: the user opens the popup, clicks checkboxes and
\* saves, while a document whose elements arrive in subtrees is loaded.
InitSettings ==
  /\ page = [name |-> "nested", pieces |-> {}]
  /\ scheme = "light"
  /\ analysed = Analysis(page)
  /\ store = [k \in OptionKeys |-> "unset"]
  /\ FreshDocument
  /\ reloads = 0
  /\ lastRun = NoRun
  /\ checkboxes = PopupClosed
  /\ saving = NotSaving
  /\ NoDecoding

NextSettings ==
  \/ Next
  \/ PopupOpen
  \/ \E key \in OptionKeys \cup {"close"} : PopupClick(key)
  \/ PopupSave

SpecSettings == InitSettings /\ [][NextSettings]_vars

(***************************************************************************)
(* The normalizer on its own: a text is handed to decodeCssEscapes, and    *)
(* the result is handed to it again (handleImports decodes the text that   *)
(* parseAndPreload decoded already).                                       *)
(***************************************************************************)

\* The pieces of a generated escape text: a backslash, hex digits that give
\* "r" and "\", a space, a letter that is no hex digit, and six hex digits
\* above 0x10FFFF.
DecPieces == <<"\\", "72", "5c", " ", "g", "110000">>

\* The number of pieces of a generated escape text, and the number of
\* passes of the normalizer over it.
MaxDecPieces == 4
MaxPasses == 2

RECURSIVE JoinedCodes(_)
JoinedCodes(ps) == IF ps = <<>> THEN <<>> ELSE Codes(DecPieces[Head(ps)]) \o JoinedCodes(Tail(ps))

DecExamples ==
  {"u\\72l(x)", "\\75rl", "\\000075 rl", "a\\1F600 b", "\\0000722", "plain text", "\\g\\"}

DecTexts ==
  {Null} \cup {Codes(ex) : ex \in DecExamples}
  \cup UNION {{JoinedCodes(ps) : ps \in [1..k -> 1..Len(DecPieces)]} : k \in 0..MaxDecPieces}

\* No document is loaded: the normalizer is exercised on its own.
InitDecode ==
  /\ page = [name |-> "blank", pieces |-> {}]
  /\ analysed = [scan |-> <<>>, math |-> <<>>, href |-> <<>>]
  /\ scheme = "light"
  /\ store = [k \in OptionKeys |-> "unset"]
  /\ FreshDocument
  /\ reloads = 0
  /\ lastRun = NoRun
  /\ checkboxes = PopupClosed
  /\ saving = NotSaving
  /\ decText \in DecTexts
  /\ decPasses = <<>>

\* One more pass: decodeCssEscapes over the text, or over the result of the
\* pass before.
Decode ==
  /\ Len(decPasses) < MaxPasses
  /\ decPasses' = Append(decPasses,
                         decodeCssEscapes(IF decPasses = <<>> THEN decText
                                          ELSE decPasses[Len(decPasses)]))
  /\ UNCHANGED <<page, analysed, scheme, store, options, domVars, engineVars, inserts,
                 reloads, lastRun, checkboxes, saving, decText>>

NextDecode == Decode

SpecDecode == InitDecode /\ [][NextDecode]_vars

(***************************************************************************)
(* Properties of the normalizer                                            *)
(***************************************************************************)

\* n hex digits stand after position j of t.
HexRun(t, j, n) == j + n <= Len(t) /\ \A k \in 1..n : IsHex(t[j + k])

\* The number a sequence of hex digits denotes, most significant digit first.
RECURSIVE DigitsValue(_)
DigitsValue(ds) ==
  IF ds = <<>> THEN 0 ELSE HexVal(Head(ds)) * 16 ^ (Len(ds) - 1) + DigitsValue(Tail(ds))

\* The positions of t that hold a backslash followed by a hex digit.
EscapeStarts(t) == {j \in 1..(Len(t) - 1) : t[j] = Backslash /\ IsHex(t[j + 1])}

\* out is t with its first escape decoded as specified and the text after
\* that escape decoded: the escape is a backslash, the longest run of 1 to 6
\* hex digits and one white-space character if one follows; it is replaced by
\* the character of its value, or kept when the value is above 0x10FFFF.
\* Absent and empty input, and text without an escape, are returned unchanged.
DecodedAsSpecified(t, out) ==
  IF t = Null \/ t = <<>> \/ EscapeStarts(t) = {} THEN out = t
  ELSE \E j \in EscapeStarts(t) : \E n \in 1..6 : \E w \in {0, 1} :
         /\ \A k \in EscapeStarts(t) : j <= k
         /\ HexRun(t, j, n) /\ (n = 6 \/ ~HexRun(t, j, n + 1))
         /\ (w = 1) <=> (j + n + 1 <= Len(t) /\ IsWs(t[j + n + 1]))
         /\ out = SubSeq(t, 1, j - 1)
                    \o (IF DigitsValue(SubSeq(t, j + 1, j + n)) > 1114111
                        THEN SubSeq(t, j, j + n + w)
                        ELSE FromCodePoint(DigitsValue(SubSeq(t, j + 1, j + n))))
                    \o decodeCssEscapes(SubSeq(t, j + n + w + 1, Len(t)))

\* C9: escape decoding is correct.  After a pass over a text, the result is
\* the text with every backslash followed by 1 to 6 hex digits and an optional
\* single white space replaced by the character at that code point; a sequence
\* whose value is no valid code point is kept in its escaped form; a backslash
\* not followed by a hex digit, text without escapes, and empty or absent
\* input are returned unchanged.  u\72l and \75rl both become url.
C9_DecodingCorrect ==
  decPasses # <<>> =>
    /\ DecodedAsSpecified(decText, decPasses[1])
    /\ decText = Codes("u\\72l(x)") => decPasses[1] = Codes("url(x)")
    /\ decText = Codes("\\75rl") => decPasses[1] = Codes("url")
    /\ decText = Codes("\\110000") => decPasses[1] = decText
    /\ decText = Codes("\\g\\") => decPasses[1] = decText

\* C9 witness: the escape of the proof of concept has been decoded.
C9_Witness == decText = Codes("u\\72l(x)") /\ decPasses # <<>> /\ decPasses[1] = Codes("url(x)")

\* The value of the escape that starts at position j of t.
EscapeValue(t, j) ==
  DigitsValue(SubSeq(t, j + 1, j + (CHOOSE n \in 1..6 :
                                      HexRun(t, j, n) /\ (n = 6 \/ ~HexRun(t, j, n + 1)))))

\* t holds an escape that a pass replaces.
HasDecodableEscape(t) ==
  t # Null /\ \E j \in EscapeStarts(t) : EscapeValue(t, j) <= 1114111

\* Every backslash of t starts an escape, and none of them is the escape of
\* the backslash itself.
EveryBackslashEscapes(t) ==
  t # Null /\ \A j \in 1..Len(t) :
    t[j] = Backslash => (j \in EscapeStarts(t) /\ EscapeValue(t, j) # Backslash)

\* C8 as stated: escape decoding is idempotent, a second pass changes nothing.
C8_Idempotent == Len(decPasses) >= 2 => decPasses[2] = decPasses[1]

\* C8 amended: a second pass changes nothing exactly when the result of the
\* first pass holds no escape with a valid code point; in particular when
\* every backslash of the input starts an escape other than the escape of a
\* backslash.
C8_IdempotentWhenNoEscapeLeft ==
  Len(decPasses) >= 2 =>
    /\ (decPasses[2] = decPasses[1]) <=> ~HasDecodableEscape(decPasses[1])
    /\ EveryBackslashEscapes(decText) => decPasses[2] = decPasses[1]

\* C8 witness: a text with two escapes was decoded, and the second pass left
\* the result as it was.
C8_Witness ==
  /\ Len(decPasses) >= 2
  /\ decText = Codes("\\72\\72")
  /\ decPasses[1] = Codes("rr")
  /\ decPasses[2] = decPasses[1]

(***************************************************************************)
(* Properties of the preloading engine                                     *)
(***************************************************************************)

LightUrl == "https://x.test/light"
DarkUrl == "https://x.test/dark"

\* The URLs requested in this document lifetime: by a probe or by a fetch.
Requested == preloadedUrls \cup {r.url : r \in BagToSet(issued)}

\* C1: unconditional coverage.  The URLs requested for a style text are the
\* same under every value of prefers-color-scheme: two lifetimes of the same
\* document end with the same requests, whatever the scheme was in each; and
\* once a text with a light rule and a dark rule has been scanned, both URLs
\* have been requested.
C1_UnconditionalCoverage ==
  /\ (Quiescent /\ lastRun.known) =>
       /\ preloadedUrls = lastRun.preloadedUrls
       /\ Requested = lastRun.preloadedUrls \cup lastRun.fetched
  /\ (options.read /\ dom = NodeIds /\ (page.name = "poc" \/ {8, 9} \subseteq page.pieces)) =>
       {LightUrl, DarkUrl} \subseteq preloadedUrls

\* C1 witness: the same text was scanned under light and under dark, and
\* both URLs were requested both times.
C1_Witness ==
  /\ Quiescent /\ lastRun.known /\ lastRun.scheme # scheme
  /\ page.pieces = {8, 9}
  /\ preloadedUrls = {LightUrl, DarkUrl}
  /\ lastRun.preloadedUrls = preloadedUrls

\* C2: load-trigger dedup.  In every reachable state, whatever sweeps,
\* observer calls and import continuations ran, every absolute URL has had at
\* most one probe created for it in this document lifetime.
C2_OneProbePerUrl == \A u \in BagToSet(probes) : CopiesIn(u, probes) <= 1

\* C2 witness: i.png was reached by url(i.png), by URL('./i.png') and by an
\* inline url(x/../i.png), scanned again after a re-insertion, and probed once.
C2_Witness ==
  /\ page.name = "links" /\ Quiescent /\ inserts = 1
  /\ CopiesIn("https://p.test/i.png", probes) = 1

\* The number of text fetches issued for a URL in this document lifetime.
FetchCount(url) ==
  BagCardinality([r \in {x \in BagToSet(issued) : x.url = url} |-> issued[r]])

\* C3 as stated: no stylesheet URL has its text fetched more than once per
\* document lifetime, whichever defenses are enabled.
C3_FetchedOnce == \A r \in BagToSet(issued) : FetchCount(r.url) <= 1

\* The stylesheets that cannot be had.
FailingUrls ==
  {"https://x.test/gone.css", "https://x.test/worker.css", "https://p.test/missing.css",
   "https://p.test/offline.css"}

\* The number of text fetches a document can cause: one per stylesheet,
\* served or not, and one per stylesheet link for the math check.
FetchBound ==
  Cardinality(ServedUrls(page.name) \cup (IF page.name = "failures" THEN FailingUrls ELSE {}))
    + Len(Links(NodeIds))

\* C4: import recursion terminates.  On a cyclic import graph and on a chain
\* of ChainLen stylesheets, provided every fetch in flight completes or
\* fails, the number of fetches issued stays within the number of
\* stylesheets, and whenever a fetch is pending a state with no pending
\* fetch follows.
C4_WalkerTerminates ==
  /\ [](BagCardinality(issued) <= FetchBound)
  /\ (pending # {}) ~> (pending = {})

\* C4 witness: the cycle a.css -> b.css -> a.css was walked to the end.
C4_Witness ==
  /\ page.name = "cycle" /\ Quiescent
  /\ parsedCssUrls = {"https://x.test/a.css", "https://x.test/b.css"}
  /\ BagCardinality(issued) = 2

\* C5 as stated: on the document whose style starts the chain s1 -> s2 -> ...,
\* no request of any kind is issued for a stylesheet of the chain beyond
\* IMPORT_MAX_DEPTH levels.
C5_NothingBeyondDepth ==
  page.name = "chain" =>
    \A k \in (IMPORT_MAX_DEPTH + 1)..ChainLen : ChainUrl(k) \notin Requested

\* C6 as stated: on the document whose references are all excluded (data:,
\* blob:, #fragment, in url(), image(), image-set() and @import), no probe
\* is created, no fetch is made and no message is sent to the fetch proxy.
C6_ExcludedNeverRequested ==
  page.name = "excluded" => (probes = EmptyBag /\ issued = EmptyBag)

\* The pieces that hold exactly one literal url() reference each, to
\* addresses that differ and that are not excluded.
PlainUrlPieces == {1, 3, 5, 8, 9}

\* C7 as stated: a text with n distinct literal url() references, scanned
\* once with nothing seen before, issues exactly n distinct load triggers.
C7_OneTriggerPerReference ==
  (page.name = "gen" /\ page.pieces \subseteq PlainUrlPieces /\ options.read /\ dom = NodeIds) =>
    /\ Cardinality(preloadedUrls) = Cardinality(page.pieces)
    /\ BagCardinality(probes) = Cardinality(page.pieces)

\* C10 as stated: order independence.  Two lifetimes of the same document,
\* with the same observer events, end with the same URLs requested and the
\* same seen-sets, whichever order the sweep, the observer calls and the
\* fetch completions took.
C10_SameOutcome ==
  (Quiescent /\ lastRun.known /\ inserts = lastRun.inserts) =>
    /\ preloadedUrls = lastRun.preloadedUrls
    /\ parsedCssUrls = lastRun.parsedCssUrls
    /\ Requested = lastRun.preloadedUrls \cup lastRun.fetched

(***************************************************************************)
(* Properties of the settings                                              *)
(***************************************************************************)

NothingStored == \A k \in OptionKeys : store[k] = "unset"

\* What a lifetime of the nested document shows of each defense once the
\* whole document is there: the element runContainerBlocking inserts, the
\* top-level style element in mathProtectedElements, its URL probed.
DefenseRan(key) ==
  CASE key = "blockContainer" -> overrideStyle
    [] key = "blockMathFingerprinting" -> 1 \in mathProtectedElements
    [] key = "usePreloading" -> "https://p.test/t.png" \in preloadedUrls

DocumentedDefaults ==
  [k \in OptionKeys |-> k = "usePreloading"]

\* C12 as stated: with nothing stored, the popup shows the documented
\* defaults (preloading on, math block off, container block off), and the
\* defenses the content script runs on activation are the documented ones.
C12_DocumentedDefaults ==
  /\ (NothingStored /\ checkboxes.opened = "shown") => checkboxes.checked = DocumentedDefaults
  /\ (NothingStored /\ options.read) => \A k \in OptionKeys : options[k] = DocumentedDefaults[k]
  /\ (NothingStored /\ Quiescent) => \A k \in OptionKeys : DefenseRan(k) = DocumentedDefaults[k]

(***************************************************************************)
(* Properties of the document watcher                                      *)
(***************************************************************************)

\* The URLs a scan of cssText under the document base triggers a load for.
LoadTargets(cssText) ==
  IF cssText = "" THEN {}
  ELSE {analysed.scan[<<cssText, DocBase>>].resources[i] :
          i \in 1..Len(analysed.scan[<<cssText, DocBase>>].resources)} \ {NoUrl}

\* The style content of node n has been fed into the walker at depth 0: the
\* URLs of its text or style attribute have had their load triggered, the
\* href of a stylesheet link has been claimed for its fetch.
Fed(n) ==
  /\ Nodes[n].tag = "STYLE" => LoadTargets(Nodes[n].text) \subseteq preloadedUrls
  /\ Nodes[n].hasStyle => LoadTargets(Nodes[n].style) \subseteq preloadedUrls
  /\ (IsStylesheetLink(n) /\ LinkHref(n).url # NoUrl) => LinkHref(n).url \in parsedCssUrls

\* C13 as stated: watcher coverage.  Once the preloading defense is active,
\* the whole document is inserted and no fetch is in flight, every
\* style-bearing element of the document, whether it was there at
\* activation, was inserted as a node or came as a descendant of an inserted
\* subtree, has had its style content fed into the walker.  (Style elements
\* whose text the math defense replaces are left aside.)
C13_WatcherCoverage ==
  (Quiescent /\ options.usePreloading) =>
    \A n \in dom : ~IsDangerous(Nodes[n].text) => Fed(n)

(***************************************************************************)
(* Properties of the fetch orchestrator                                    *)
(***************************************************************************)

\* url has the origin of the document: the scheme, host and port of the
\* document base, which is also the origin of a frame the document created.
SameOriginAsDocument(url) ==
  Len(url) >= Len(DocBase) /\ SubSeq(url, 1, Len(DocBase)) = DocBase

\* C14 as stated: fetch routing.  Every text fetch goes through the fetch
\* proxy if and only if the origin of its URL differs from the origin of the
\* document: a same-origin URL is fetched in the page, never by the proxy, and
\* a cross-origin URL is never fetched in the page.
C14_RoutedByOrigin ==
  \A r \in BagToSet(issued) : (r.via = "proxy") <=> ~SameOriginAsDocument(r.url)

\* C15: fetch failure is a value.  Every fetch that is over has fulfilled
\* its promise, none has rejected it: with the body when the servers answered
\* with it, and with null on a malformed URL, on a network error, on a
\* non-success status, on a runtime error of the proxy and on a response of
\* the proxy with success = false.
C15_FailureIsAValue ==
  \A s \in settled :
    /\ s.state = "fulfilled"
    /\ (s.via # "none" /\ Outcome(s.url) = "ok") => s.css = Body(s.url)
    /\ (s.via = "none" \/ Outcome(s.url) # "ok") => s.css = NoCss

\* C15 witness: the fetches of the document of failures are over: a URL that
\* does not parse, two in the page that met an error status and no answer,
\* two through the proxy that met success = false and a runtime error.
C15_Witness ==
  /\ page.name = "failures" /\ Quiescent
  /\ \A f \in {<<"https://", "none">>, <<"https://p.test/missing.css", "direct">>,
                <<"https://p.test/offline.css", "direct">>, <<"https://x.test/gone.css", "proxy">>,
                <<"https://x.test/worker.css", "proxy">>} :
       \E s \in settled : s.url = f[1] /\ s.via = f[2] /\ s.css = NoCss

(***************************************************************************)
(* Properties of the import walker                                         *)
(***************************************************************************)

\* C16 as stated: the terminal condition.  When a fetch completes whose text
\* the walker is invoked on at depth >= IMPORT_MAX_DEPTH, that invocation
\* issues no load trigger and no stylesheet fetch and adds nothing to
\* preloadedUrls or parsedCssUrls.
C16_TerminalStopsSilently ==
  [][\A p \in pending :
       (p.depth >= IMPORT_MAX_DEPTH /\ p \notin pending' /\ reloads' = reloads) =>
         UNCHANGED <<preloadedUrls, parsedCssUrls, probes, issued>>]_vars

\* The URL up to and including its last "/".
RECURSIVE DirOf(_)
DirOf(url) ==
  IF url = "" \/ SubSeq(url, Len(url), Len(url)) = "/" THEN url
  ELSE DirOf(SubSeq(url, 1, Len(url) - 1))

\* The fetch that completed in this step, if one did, and the import fetches
\* that were issued in it.
Completed == pending \ pending'
NewImports == {q \in pending' \ pending : q.by = "import"}

\* A URL that fetchURLFromPage drops by its prefix.
HasExcludedPrefix(url) ==
  \E prefix \in {"data:", "blob:", "#"} :
    Len(url) >= Len(prefix) /\ SubSeq(url, 1, Len(prefix)) = prefix

C18_SingleNormalization ==
  (page.name = "twice" /\ ImportMatches(decodeCssEscapes(Codes(Nodes[1].text)), 1) = <<>>) =>
    (parsedCssUrls = {} /\ issued = EmptyBag)

(***************************************************************************)
(* Properties of the probes                                                *)
(***************************************************************************)

\* The URLs the documents of SpecProbes have probes for.
ProbeUrls ==
  {LightUrl, DarkUrl, "https://x.test/a.css", "https://x.test/b.css",
   "https://x.test/a.png", "https://x.test/b.png"}

\* C19: the probe lifecycle.  A probe is in the document only as long as
\* none of its events has fired: the first of load, error and timeout
\* removes it; an event that fires for a probe already removed changes
\* nothing else; a probe whose timer has fired is not attached, so none is
\* attached once all timers have fired; and, the timers firing, every
\* attached probe is eventually removed.
C19_ProbeLifecycle ==
  /\ [](/\ attached \subseteq ProbeUrls
        /\ \A url \in attached : {<<url, "img">>, <<url, "timeout">>} \subseteq awaiting)
  /\ []((\A url \in preloadedUrls : <<url, "timeout">> \notin awaiting) => attached = {})
  /\ [][(reloads' = reloads /\ awaiting' # awaiting /\ awaiting' \subseteq awaiting) =>
          /\ attached' = attached \ {e[1] : e \in awaiting \ awaiting'}
          /\ UNCHANGED <<domVars, preloadedUrls, parsedCssUrls, probes, issued, pending, settled>>]_vars
  /\ \A url \in ProbeUrls : (url \in attached) ~> (url \notin attached)

\* C19 witness: both events of the probe of the light URL have fired, the
\* second one after the probe was removed; the probe of the dark URL is
\* attached, none of its events has fired.
C19_Witness ==
  /\ page.name = "poc" /\ reloads = 0
  /\ preloadedUrls = {LightUrl, DarkUrl}
  /\ attached = {DarkUrl}
  /\ awaiting = {<<DarkUrl, "img">>, <<DarkUrl, "timeout">>}

(***************************************************************************)
(* Properties of the failure handling                                      *)
(***************************************************************************)

\* The number of text fetches the preloading engine (the sweep and the
\* observer of runPreloading, and handleImports) has issued for a URL.
EngineFetchCount(url) ==
  BagCardinality([r \in {x \in BagToSet(issued) : x.url = url /\ x.by # "math"} |-> issued[r]])

\* C20: no retry.  The URL of every fetch of the preloading engine that is
\* over, failed ones included, is in parsedCssUrls; nothing leaves
\* parsedCssUrls in a document lifetime; and the engine has issued at most
\* one text fetch per URL, however often the URL was met again by the
\* sweep, by an observer call or by another @import.
C20_NoRetry ==
  /\ [](\A f \in settled : f.by # "math" => f.url \in parsedCssUrls)
  /\ [](\A r \in BagToSet(issued) : EngineFetchCount(r.url) <= 1)
  /\ [][reloads' = reloads => parsedCssUrls \subseteq parsedCssUrls']_vars

\* C20 witness: gone.css, referenced by a link and by an @import, failed;
\* after an element was inserted again and everything has settled, the engine
\* has fetched it once and it is still marked.
C20_Witness ==
  /\ page.name = "failures" /\ Quiescent /\ inserts = 1
  /\ \E f \in settled : f.url = "https://x.test/gone.css" /\ f.by # "math" /\ f.css = NoCss
  /\ "https://x.test/gone.css" \in parsedCssUrls
  /\ EngineFetchCount("https://x.test/gone.css") = 1

(***************************************************************************)
(* Properties of the seen-sets                                             *)
(***************************************************************************)

\* The URLs a scan of cssText under baseUrl calls fetchURLFromPage for and
\* gets a URL from, and the import URLs it resolves.
Triggers(cssText, baseUrl) ==
  IF cssText = "" THEN {}
  ELSE {analysed.scan[<<cssText, baseUrl>>].resources[i] :
          i \in 1..Len(analysed.scan[<<cssText, baseUrl>>].resources)} \ {NoUrl}

ImportsOf(cssText, baseUrl) ==
  IF cssText = "" THEN {}
  ELSE {analysed.scan[<<cssText, baseUrl>>].imports[i].url :
          i \in 1..Len(analysed.scan[<<cssText, baseUrl>>].imports)} \ {NoUrl}

\* After this step every url() target of the text is load-triggered and,
\* below IMPORT_MAX_DEPTH, every import target of the text is marked and has
\* one fetch of the engine, whatever either set held before the step.
WalkedInStep(cssText, baseUrl, depth) ==
  /\ Triggers(cssText, baseUrl) \subseteq preloadedUrls'
  /\ depth < IMPORT_MAX_DEPTH =>
       \A u \in ImportsOf(cssText, baseUrl) : u \in parsedCssUrls' /\ EngineFetchCount(u)' = 1

\* The nodes the preloading defense is handed in this step: the document as
\* it is when the defense is started, or the node an observer is called with
\* when it is inserted.
HandedInStep ==
  IF ~options'.usePreloading \/ reloads' # reloads THEN {}
  ELSE IF ~options.read /\ options'.read THEN dom
  ELSE IF options.read THEN {r \in Roots : r \in dom' \ dom}
  ELSE {}

BothUrls == {"https://x.test/both.css", "https://x.test/lk.css", "https://x.test/imp.css"}

Fails(p) == p.via = "none" \/ Outcome(p.url) # "ok"

\* C22: failure isolation.  (1) A fetch that fails takes nothing with it:
\* the step in which it fails removes that fetch alone from the fetches in
\* flight and changes neither seen-set nor the document, so that sibling
\* fetches and the scope that issued it go on.  (2) On every document, once
\* the preloading defense has been handed a top-level style element, every
\* candidate of its text that resolves is load-triggered and every import
\* that resolves is marked, whatever candidates of the text are dropped.
\* (3) On the document whose text mixes candidates that do not resolve,
\* excluded ones and failing imports with candidates that can be had, once
\* everything has settled each of the latter was requested: the images of
\* the text, the stylesheet imported after the failing imports, the import
\* and the image that follow a failing import in it, and the link that
\* follows a failing link.
C22_FailureIsolation ==
  /\ [][reloads' = reloads =>
          \A p \in Completed :
            Fails(p) =>
              /\ pending' = pending \ {p}
              /\ UNCHANGED <<preloadedUrls, parsedCssUrls, probes, issued, domVars>>]_vars
  /\ [](\A n \in Roots \cap dom :
          (options.read /\ options.usePreloading /\ Nodes[n].tag = "STYLE") =>
            /\ Triggers(styleText[n], DocBase) \subseteq preloadedUrls
            /\ ImportsOf(styleText[n], DocBase) \subseteq parsedCssUrls)
  /\ []((page.name = "isolation" /\ Quiescent /\ options.usePreloading) =>
          /\ {"https://p.test/ok1.png", "https://p.test/ok2.png", "https://x.test/ok3.png",
               "https://x.test/ok4.png", "https://x.test/ok5.png", "https://x.test/nope.css",
               "https://x.test/iso.css", "https://x.test/nope2.css", "https://x.test/fine.css"}
                \subseteq preloadedUrls
          /\ \A u \in {"https://x.test/nope.css", "https://x.test/iso.css", "https://x.test/nope2.css",
                        "https://x.test/fine.css", "https://x.test/gone.css", "https://x.test/sib.css"} :
               u \in parsedCssUrls /\ EngineFetchCount(u) = 1)

\* C22 witness: on that document everything has settled: the imports
\* nope.css and nope2.css and the link gone.css failed, and the image of
\* fine.css, which iso.css imports after nope2.css, is load-triggered.
C22_Witness ==
  /\ page.name = "isolation" /\ Quiescent /\ options.usePreloading
  /\ \A u \in {"https://x.test/nope.css", "https://x.test/nope2.css", "https://x.test/gone.css"} :
       \E f \in settled : f.url = u /\ f.by # "math" /\ f.css = NoCss
  /\ {"https://p.test/ok1.png", "https://x.test/ok4.png"} \subseteq preloadedUrls

(***************************************************************************)
(* Properties of the fetch proxy                                           *)
(***************************************************************************)

\* C23: the proxy protocol.  For every message to the service worker: (1)
\* the worker has sent no response while its fetch is in flight and exactly
\* one once the fetch has completed or failed, and never a second one; (2)
\* the response has success = true and the body exactly when the servers
\* answered with a success status and the body was read, and success = false
\* with an error message on an error status, on a network error and on a
\* body that could not be read; (3) the promise is resolved at most once,
\* exactly once when the request is no longer in flight, with the body on
\* success and with null otherwise, also when the worker was not reached;
\* (4) every request through the proxy that was issued is in flight or has
\* resolved; and, a message being delivered, the fetch of the worker
\* completing or failing and the callback running, requests in flight
\* through the proxy all come to resolve.
C23_ProxyProtocol ==
  /\ [](\A m \in port :
          /\ Len(m.responses) = (IF m.stage = "fetch" \/ Outcome(m.req.url) = "lastError"
                                 THEN 0 ELSE 1)
          /\ \A i \in 1..Len(m.responses) :
               LET response == m.responses[i]
               IN  /\ response.success <=> Outcome(m.req.url) = "ok"
                   /\ response.success => response.css = Body(m.req.url) /\ response.error = ""
                   /\ ~response.success => response.css = NoCss /\ response.error # ""
          /\ Len(m.resolves) = (IF m.stage = "done" THEN 1 ELSE 0)
          /\ m.stage = "done" <=> m.req \notin pending
          /\ \A i \in 1..Len(m.resolves) :
               m.resolves[i] = (IF Outcome(m.req.url) = "ok" THEN Body(m.req.url) ELSE NoCss))
  /\ [](\A r \in BagToSet(issued) :
          r.via = "proxy" =>
            \/ \E p \in pending : p.url = r.url /\ p.by = r.by
            \/ \E m \in port : m.req.url = r.url /\ m.req.by = r.by /\ m.stage = "done")
  /\ (\E p \in pending : p.via = "proxy") ~> (\A p \in pending : p.via # "proxy")

\* C23 witness: the requests of the document of proxied imports are over,
\* one for each way the fetch of the worker can end: a.css came with
\* success = true and resolved with its body; gone.css, down.css and cut.css
\* came with success = false and resolved with null; for worker.css the
\* worker was not reached, nothing was sent and the promise resolved with
\* null.
C23_Witness ==
  /\ page.name = "proxied" /\ Quiescent
  /\ \E m \in port :
       /\ m.req.url = "https://x.test/a.css" /\ m.stage = "done"
       /\ m.responses = <<[success |-> TRUE, css |-> Body(m.req.url), error |-> ""]>>
       /\ m.resolves = <<Body(m.req.url)>>
  /\ \A u \in {"https://x.test/gone.css", "https://x.test/down.css", "https://x.test/cut.css"} :
       \E m \in port :
         /\ m.req.url = u /\ m.stage = "done" /\ m.resolves = <<NoCss>>
         /\ Len(m.responses) = 1 /\ ~m.responses[1].success
  /\ \E m \in port :
       m.req.url = "https://x.test/worker.css" /\ m.responses = <<>> /\ m.resolves = <<NoCss>>

(***************************************************************************)
(* Properties of the popup                                                 *)
(***************************************************************************)

C25_DefensesIndependent ==
  (Quiescent /\ options.usePreloading) =>
    \A n \in Roots \cap dom :
      Nodes[n].tag = "STYLE" => Triggers(Nodes[n].text, DocBase) \subseteq preloadedUrls

(***************************************************************************)
(* Properties of the seen-sets over a document lifetime                    *)
(***************************************************************************)

\* The text fetches that the preloading engine issues in this step.
EngineIssuesInStep ==
  {r \in BagToSet(issued') : r.by # "math" /\ CopiesIn(r, issued') > CopiesIn(r, issued)}

\* C26: the seen-set invariant.  (1) Within a document lifetime both
\* seen-sets only grow.  (2) In every state a URL has, or has had, a probe
\* exactly when it is in preloadedUrls.  (3) Every URL for which the
\* preloading engine issues a text fetch is in parsedCssUrls when the handler
\* that issues it returns, and every URL for which it has issued one is in
\* parsedCssUrls.
C26_SeenSets ==
  /\ [][reloads' = reloads =>
          /\ preloadedUrls \subseteq preloadedUrls'
          /\ parsedCssUrls \subseteq parsedCssUrls'
          /\ \A r \in EngineIssuesInStep : r.url \in parsedCssUrls']_vars
  /\ [](BagToSet(probes) = preloadedUrls)
  /\ [](\A r \in BagToSet(issued) : r.by # "math" => r.url \in parsedCssUrls)

\* C26 witness: on the document with links and imports everything has
\* settled, probes were created, a link and an import were fetched by the
\* engine, and the seen-sets hold their URLs.
C26_Witness ==
  /\ page.name = "both" /\ options.usePreloading /\ reloads = 0 /\ Quiescent
  /\ BagToSet(probes) = preloadedUrls /\ Cardinality(preloadedUrls) >= 3
  /\ \E r \in BagToSet(issued) : r.by = "link" /\ r.url \in parsedCssUrls
  /\ \E r \in BagToSet(issued) : r.by = "import" /\ r.url \in parsedCssUrls

====
